---- MODULE Spec2Model ----
(***************************************************************************)
(* Model of lunch-label-formatter: the label generator                     *)
(* (src/src/labelGenerator.js), the font plan (utils.js) and the built-in  *)
(* template tables (src/src/templates.js, src/src/index.js).               *)
(*                                                                         *)
(* Units.  The source works in inches (template fields) and points         *)
(* (positions).  Every inch quantity of the model is an integer number of  *)
(* 1/10000 inch (2.625 in = 26250) and every point quantity an integer     *)
(* number of 1/10000 point, so that "inches * 72" is the integer product   *)
(* by 72 and all decimals of the source tables are represented exactly.    *)
(*                                                                         *)
(* Text.  A string is a sequence of characters, a character a token such   *)
(* as "a" or " ".  A JavaScript object is a function whose DOMAIN is the   *)
(* set of its keys: a missing key is a field outside the DOMAIN.           *)
(***************************************************************************)
EXTENDS Integers, Sequences, FiniteSets, TLC

VARIABLES
  pc,                  \* position in createLunchLabels
  inputIsArray,        \* Array.isArray(lunchOrders)
  lunchOrders,         \* argument: the orders
  template,            \* argument: the profile
  outputPath,          \* argument: the output path
  currentPage,         \* local: page being filled (0 = null)
  labelIndex,          \* local: labels drawn so far
  labelsOnCurrentPage, \* local: labels drawn on currentPage
  pageCount,           \* local: pages added to the document
  drawLog,             \* the drawLunchLabel calls that completed, in order
  error,               \* the error the run threw ("none" while it has not)
  saved,               \* pdfDoc.save() has returned
  dirsMade,            \* fs.mkdir calls that returned
  writes,              \* fs.writeFile calls on outputPath
  tplCall,             \* template registry: the function called
  tplName,             \* template registry: the name passed
  tplResult,           \* template registry: what the call returned or threw
  csvPc,               \* CSV: position in the save / load round trip
  csvData,             \* CSV: the records handed to convertToCSV
  csvText,             \* CSV: the text convertToCSV returned
  csvRows,             \* CSV: what parseCSV returned or threw
  detPc,               \* template inference: position of the caller
  detPages,            \* template inference: the pages of the template PDF
  detectedTemplate,    \* TemplateDetector.detectedTemplate (<<>> = null)
  detError             \* template inference: the error thrown

genVars == <<pc, inputIsArray, lunchOrders, template, outputPath, currentPage,
             labelIndex, labelsOnCurrentPage, pageCount, drawLog, error, saved,
             dirsMade, writes>>

tplVars == <<tplCall, tplName, tplResult>>

csvVars == <<csvPc, csvData, csvText, csvRows>>

\* the variables createLunchLabels does not touch
detVars == <<detPc, detPages, detectedTemplate, detError>>

libVars == <<tplVars, csvVars, detVars>>

vars == <<genVars, libVars>>

----------------------------------------------------------------------------
(* Bounds of the model *)

MaxOrders == 32      \* longest order list
MaxBadLen == 4       \* longest order list that holds invalid orders

----------------------------------------------------------------------------
(* Page and unit constants *)

PointsPerInch == 72

PAGE_WIDTH == 85000 * PointsPerInch

PAGE_HEIGHT == 110000 * PointsPerInch

----------------------------------------------------------------------------
(* Built-in profiles *)

Profile(nm, lw, lh, lpr, lpc, mt, ml, hg, vg) ==
  [name |-> nm, labelWidth |-> lw, labelHeight |-> lh, labelsPerRow |-> lpr,
   labelsPerColumn |-> lpc, marginTop |-> mt, marginLeft |-> ml,
   horizontalGap |-> hg, verticalGap |-> vg]

templates ==
  [n \in {"5160", "8160", "5162", "5163", "8163", "5164", "8164", "5167"} |->
     CASE n = "5160" -> Profile("5160", 26250, 10000, 3, 10, 5000, 1875, 1250, 0)
       [] n = "8160" -> Profile("8160", 26250, 10000, 3, 10, 5000, 1875, 1250, 0)
       [] n = "5162" -> Profile("5162", 40000, 13330, 2, 7, 5000, 2500, 2500, 1250)
       [] n = "5163" -> Profile("5163", 40000, 20000, 2, 5, 2500, 2500, 2500, 1250)
       [] n = "8163" -> Profile("8163", 40000, 20000, 2, 5, 2500, 2500, 2500, 1250)
       [] n = "5164" -> Profile("5164", 35000, 30000, 2, 3, 5000, 5000, 2500, 2500)
       [] n = "8164" -> Profile("8164", 35000, 30000, 2, 3, 5000, 5000, 2500, 2500)
       [] n = "5167" -> Profile("5167", 17500, 5000, 4, 20, 2500, 1250, 1250, 625)]

cliTemplates ==
  [n \in {"5160", "8160", "5164", "8164"} |->
     CASE n = "5160" -> Profile("5160", 26250, 10000, 3, 10, 5000, 1875, 1250, 0)
       [] n = "8160" -> Profile("8160", 26250, 10000, 3, 10, 5000, 1875, 1250, 0)
       [] n = "5164" -> Profile("5164", 40000, 33330, 2, 3, 5000, 5000, 2500, 2500)
       [] n = "8164" -> Profile("8164", 40000, 33330, 2, 3, 5000, 5000, 2500, 2500)]

BuiltInProfiles ==
  {templates[n] : n \in DOMAIN templates} \cup
  {cliTemplates[n] : n \in DOMAIN cliTemplates}

----------------------------------------------------------------------------
(* Text *)

Whitespace == {" ", "\t", "\n", "\r"}

\* Characters the standard (WinAnsi) fonts cannot encode: measuring or
\* drawing a text that holds one throws.
Unencodable == {"U+4E2D"}

\* the text without its leading whitespace
TrimStart(s) ==
  LET kept == {i \in 1..Len(s) : s[i] \notin Whitespace}
  IN  IF kept = {} THEN <<>>
      ELSE SubSeq(s, CHOOSE i \in kept : \A j \in kept : i <= j, Len(s))

\* the text without its trailing whitespace
TrimEnd(s) ==
  LET kept == {i \in 1..Len(s) : s[i] \notin Whitespace}
  IN  IF kept = {} THEN <<>>
      ELSE SubSeq(s, 1, CHOOSE i \in kept : \A j \in kept : i >= j)

\* String.prototype.trim
Trim(s) == TrimEnd(TrimStart(s))

DigitChar == <<"0", "1", "2", "3", "4", "5", "6", "7", "8", "9">>

RECURSIVE Digits(_)
Digits(i) ==
  IF i < 10 THEN <<DigitChar[i + 1]>>
  ELSE Digits(i \div 10) \o <<DigitChar[(i % 10) + 1]>>

\* !obj[field] : the key is absent or its value is the empty string
Falsy(obj, field) == field \notin DOMAIN obj \/ obj[field] = <<>>

----------------------------------------------------------------------------
(* validateInput of labelGenerator.js *)

requiredTemplateFields ==
  <<"labelWidth", "labelHeight", "labelsPerRow", "labelsPerColumn",
    "marginTop", "marginLeft">>

TemplateFieldInvalid(t, f) == f \notin DOMAIN t \/ t[f] <= 0

MissingTemplateFields(t) ==
  SelectSeq(requiredTemplateFields, LAMBDA f : TemplateFieldInvalid(t, f))

\* isValidTemplate: "ok" when it returns true, else the error it throws
isValidTemplate(t) ==
  IF MissingTemplateFields(t) # <<>> THEN "Template missing required fields"
  ELSE IF t.labelWidth > 100000 \/ t.labelHeight > 100000
       THEN "Label dimensions too large"
  ELSE IF t.labelsPerRow > 10 \/ t.labelsPerColumn > 20
       THEN "Too many labels per page"
  ELSE "ok"

requiredOrderFields == <<"orderId", "studentName", "grade", "contents">>

MissingOrderFields(order) ==
  SelectSeq(requiredOrderFields,
            LAMBDA f : Falsy(order, f) \/ Trim(order[f]) = <<>>)

\* isValidLunchOrder returns true
isValidLunchOrder(order) == MissingOrderFields(order) = <<>>

\* isValidOutputPath: "ok" when it returns true, else the error it throws
isValidOutputPath(path) ==
  IF path = <<>> THEN "Output path must be a valid string"
  ELSE IF \E k \in 1..Len(path) : path[k] = "NUL"
       THEN "Output path contains invalid characters"
  ELSE "ok"

\* path.dirname for the relative and absolute paths of the model
Dirname(path) ==
  LET slashes == {k \in 1..Len(path) : path[k] = "/"}
  IN  IF slashes = {} THEN <<".">>
      ELSE LET last == CHOOSE k \in slashes : \A j \in slashes : j <= k
           IN  IF last = 1 THEN <<"/">> ELSE SubSeq(path, 1, last - 1)

----------------------------------------------------------------------------
(* Size tier: the three copies of the classification *)

FontPlans ==
  [small  |-> [orderId |-> 6, studentName |-> 7, grade |-> 6, contents |-> 6,
               specialInstructions |-> 5],
   medium |-> [orderId |-> 7, studentName |-> 9, grade |-> 7, contents |-> 7,
               specialInstructions |-> 6],
   large  |-> [orderId |-> 8, studentName |-> 12, grade |-> 8, contents |-> 8,
               specialInstructions |-> 7]]

\* utils.js: sizeCategory of calculateFontSizes
sizeCategory(t) ==
  IF t.labelWidth < 20000 \/ t.labelHeight < 7500 THEN "small"
  ELSE IF t.labelWidth > 35000 \/ t.labelHeight > 20000 THEN "large"
  ELSE "medium"

calculateFontSizes(t) == FontPlans[sizeCategory(t)]

\* variant: the small threshold compared with <= instead of <
PaddingInclusive(t) ==
  IF t.labelWidth <= 20000 \/ t.labelHeight <= 7500 THEN 500 * PointsPerInch
  ELSE IF t.labelWidth > 35000 \/ t.labelHeight > 20000
       THEN 2000 * PointsPerInch
  ELSE 1200 * PointsPerInch

\* drawLunchLabel: padding, in 1/10000 point (0.05, 0.2, 0.12 inch * 72)
Padding(t) ==
  IF t.labelWidth < 20000 \/ t.labelHeight < 7500 THEN 500 * PointsPerInch
  ELSE IF t.labelWidth > 35000 \/ t.labelHeight > 20000
       THEN 2000 * PointsPerInch
  ELSE 1200 * PointsPerInch

\* drawLunchLabel: lineHeight, in 1/10000 point (8, 12, 10 points)
LineHeight(t) ==
  IF t.labelWidth < 20000 \/ t.labelHeight < 7500 THEN 8 * 10000
  ELSE IF t.labelWidth > 35000 \/ t.labelHeight > 20000 THEN 12 * 10000
  ELSE 10 * 10000

----------------------------------------------------------------------------
(* Grid geometry of the loop of createLunchLabels *)

Capacity(t) == t.labelsPerRow * t.labelsPerColumn

\* variant: the page capacity taken as labelsPerRow squared
StartsNewPageSquare(idx, t) == idx % (t.labelsPerRow * t.labelsPerRow) = 0

\* variant: a new page for every row of labels
StartsNewPageByRow(idx, t) == idx % t.labelsPerRow = 0

StartsNewPage(idx, t) == idx % Capacity(t) = 0

Row(onPage, t) == onPage \div t.labelsPerRow

\* variant: the column taken modulo the number of rows
ColByColumnCount(onPage, t) == onPage % t.labelsPerColumn

Col(onPage, t) == onPage % t.labelsPerRow

labelWidthPoints(t) == t.labelWidth * PointsPerInch

labelHeightPoints(t) == t.labelHeight * PointsPerInch

\* variant: the column pitch without the horizontal gap
LabelXNoGap(t, col) ==
  t.marginLeft * PointsPerInch + col * labelWidthPoints(t)

LabelX(t, col) ==
  t.marginLeft * PointsPerInch
    + col * (labelWidthPoints(t) + t.horizontalGap * PointsPerInch)

\* variant: the row pitch without the vertical gap
LabelYNoGap(t, row) ==
  PAGE_HEIGHT
    - (t.marginTop * PointsPerInch + row * labelHeightPoints(t))
    - labelHeightPoints(t)

LabelY(t, row) ==
  PAGE_HEIGHT
    - (t.marginTop * PointsPerInch
         + row * (labelHeightPoints(t) + t.verticalGap * PointsPerInch))
    - labelHeightPoints(t)

\* variant: the right and top checks without the label's width and height
PositionErrorOriginOnly(t, x, y) ==
  IF x < 0 THEN "too far left"
  ELSE IF y < 0 THEN "too far down"
  ELSE IF x > PAGE_WIDTH THEN "beyond right edge"
  ELSE IF y > PAGE_HEIGHT THEN "beyond top edge"
  ELSE "ok"

\* the four position checks, in the order of the code; "ok" when none throws
PositionError(t, x, y) ==
  IF x < 0 THEN "too far left"
  ELSE IF y < 0 THEN "too far down"
  ELSE IF x + labelWidthPoints(t) > PAGE_WIDTH THEN "beyond right edge"
  ELSE IF y + labelHeightPoints(t) > PAGE_HEIGHT THEN "beyond top edge"
  ELSE "ok"

\* the texts drawLunchLabel measures; measuring an unencodable one throws
MeasuredFields(order) ==
  {f \in {"orderId", "studentName", "grade", "contents"} : ~Falsy(order, f)}
    \cup {f \in {"specialInstructions"} :
            ~Falsy(order, f) /\ Trim(order[f]) # <<>>}

\* variant: measuring a text of more than 20 characters throws as well
DrawThrowsOnLongText(order) ==
  \E f \in MeasuredFields(order) :
    \/ \E k \in 1..Len(order[f]) : order[f][k] \in Unencodable
    \/ Len(order[f]) > 20

DrawThrows(order) ==
  \E f \in MeasuredFields(order) :
    \E k \in 1..Len(order[f]) : order[f][k] \in Unencodable

----------------------------------------------------------------------------
(* Text of drawLunchLabel *)

\* advance widths of the embedded Helvetica, in 1/1000 of the font size
HelveticaWidths ==
  [c \in {" ", "#", "*", ".", ":", "0", "1", "2", "3", "4", "5", "6", "7",
          "8", "9", "A", "G", "L", "W", "a", "b", "d", "e", "i", "j", "n",
          "o", "p", "r", "t", "u"} |->
     CASE c \in {" ", ".", ":", "t"} -> 278
       [] c \in {"i", "j"} -> 222
       [] c = "r" -> 333
       [] c = "*" -> 389
       [] c = "A" -> 667
       [] c = "G" -> 778
       [] c = "W" -> 944
       [] OTHER -> 556]

\* advance widths of the embedded Helvetica-Bold, in 1/1000 of the font size
HelveticaBoldWidths ==
  [c \in DOMAIN HelveticaWidths |->
     CASE c \in {" ", ".", "i", "j"} -> 278
       [] c \in {":", "t"} -> 333
       [] c \in {"r", "*"} -> 389
       [] c \in {"L", "b", "d", "n", "o", "p", "u"} -> 611
       [] c = "A" -> 722
       [] c = "G" -> 778
       [] c = "W" -> 944
       [] OTHER -> 556]

GlyphWidth(face, c) ==
  IF face = "boldFont" THEN HelveticaBoldWidths[c] ELSE HelveticaWidths[c]

\* the sum of the advance widths of the glyphs, taken half by half
RECURSIVE TextUnits(_, _)
TextUnits(face, text) ==
  IF text = <<>> THEN 0
  ELSE IF Len(text) = 1 THEN GlyphWidth(face, text[1])
  ELSE TextUnits(face, SubSeq(text, 1, Len(text) \div 2))
         + TextUnits(face, SubSeq(text, Len(text) \div 2 + 1, Len(text)))

\* font.widthOfTextAtSize(text, size): size in points, result in 1/10000
\* point (kerning pairs are left out)
widthOfTextAtSize(face, text, size) == TextUnits(face, text) * size * 10

ellipsis == <<".", ".", ".">>

maxWidth(t) == labelWidthPoints(t) - Padding(t) * 2

\* the cursor before the first field
StartText(t, y) ==
  [lines |-> <<>>, warnings |-> {},
   currentY |-> y + labelHeightPoints(t) - Padding(t) - LineHeight(t) \div 2]

\* page.drawText(text, {x: x + padding, y: currentY, size, font})
drawText(s, field, text, t, x, face) ==
  [s EXCEPT !.lines =
     Append(@, [field |-> field, text |-> text, x |-> x + Padding(t),
                y |-> s.currentY, size |-> calculateFontSizes(t)[field],
                font |-> face])]

MoveDown(s, t) == [s EXCEPT !.currentY = @ - LineHeight(t)]

Warn(s, field) == [s EXCEPT !.warnings = @ \cup {field}]

\* order ID: measured in the regular face, drawn in the bold one
DrawOrderId(s, order, t, x) ==
  IF Falsy(order, "orderId") THEN s
  ELSE LET orderIdText == <<"#">> \o order.orderId
       IN  IF widthOfTextAtSize("font", orderIdText,
                                calculateFontSizes(t).orderId) <= maxWidth(t)
           THEN MoveDown(drawText(s, "orderId", orderIdText, t, x, "boldFont"), t)
           ELSE Warn(s, "orderId")

\* variant: the loop body run at most once
TruncateNameOnce(truncatedName, t) ==
  IF /\ widthOfTextAtSize("boldFont", truncatedName \o ellipsis,
                          calculateFontSizes(t).studentName) > maxWidth(t)
     /\ Len(truncatedName) > 0
  THEN SubSeq(truncatedName, 1, Len(truncatedName) - 1)
  ELSE truncatedName

\* the while loop that shortens the name until name + "..." fits
RECURSIVE TruncateName(_, _)
TruncateName(truncatedName, t) ==
  IF /\ widthOfTextAtSize("boldFont", truncatedName \o ellipsis,
                          calculateFontSizes(t).studentName) > maxWidth(t)
     /\ Len(truncatedName) > 0
  THEN TruncateName(SubSeq(truncatedName, 1, Len(truncatedName) - 1), t)
  ELSE truncatedName

\* variant: the name drawn with the ellipsis whenever the loop has ended
DrawStudentNameAlways(s, order, t, x) ==
  IF Falsy(order, "studentName") THEN s
  ELSE LET truncatedName == TruncateName(order.studentName, t)
       IN  Warn(MoveDown(drawText(s, "studentName", truncatedName \o ellipsis,
                                  t, x, "boldFont"), t), "studentName")

DrawStudentName(s, order, t, x) ==
  IF Falsy(order, "studentName") THEN s
  ELSE IF widthOfTextAtSize("boldFont", order.studentName,
                            calculateFontSizes(t).studentName) <= maxWidth(t)
  THEN MoveDown(drawText(s, "studentName", order.studentName, t, x,
                         "boldFont"), t)
  ELSE LET truncatedName == TruncateName(order.studentName, t)
       IN  Warn(MoveDown(IF Len(truncatedName) > 0
                         THEN drawText(s, "studentName",
                                       truncatedName \o ellipsis, t, x,
                                       "boldFont")
                         ELSE s, t), "studentName")

DrawGrade(s, order, t, x) ==
  IF Falsy(order, "grade") THEN s
  ELSE LET gradeText == <<"G", "r", "a", "d", "e", ":", " ">> \o order.grade
       IN  IF widthOfTextAtSize("font", gradeText,
                                calculateFontSizes(t).grade) <= maxWidth(t)
           THEN MoveDown(drawText(s, "grade", gradeText, t, x, "font"), t)
           ELSE Warn(s, "grade")

\* String.prototype.split(separator): the pieces between the separators
SplitOn(text, separator) ==
  LET at == {i \in 1..Len(text) : text[i] = separator}
      n == Cardinality(at)
      Pos(k) == IF k = 0 THEN 0
                ELSE IF k > n THEN Len(text) + 1
                ELSE CHOOSE i \in at : Cardinality({j \in at : j <= i}) = k
  IN  [k \in 1..(n + 1) |-> SubSeq(text, Pos(k - 1) + 1, Pos(k) - 1)]

maxLines == 3

\* variant: the word that overflows a line is not carried to the next one
RECURSIVE WrapWordsDropsWord(_, _, _, _, _, _, _)
WrapWordsDropsWord(words, k, currentLine, linesDrawn, s, t, x) ==
  IF k > Len(words)
  THEN [s |-> s, currentLine |-> currentLine, linesDrawn |-> linesDrawn]
  ELSE LET word == words[k]
           testLine == IF currentLine # <<>>
                       THEN currentLine \o <<" ">> \o word
                       ELSE word
           testWidth == widthOfTextAtSize("font", testLine,
                                          calculateFontSizes(t).contents)
       IN  IF testWidth <= maxWidth(t) /\ linesDrawn < maxLines
           THEN WrapWordsDropsWord(words, k + 1, testLine, linesDrawn, s, t, x)
           ELSE IF currentLine # <<>> /\ linesDrawn < maxLines
           THEN WrapWordsDropsWord(words, k + 1, <<>>, linesDrawn + 1,
                                   MoveDown(drawText(s, "contents", currentLine,
                                                     t, x, "font"), t), t, x)
           ELSE WrapWordsDropsWord(words, k + 1, word, linesDrawn, s, t, x)

\* the loop over the words of the contents, from word k on
RECURSIVE WrapWords(_, _, _, _, _, _, _)
WrapWords(words, k, currentLine, linesDrawn, s, t, x) ==
  IF k > Len(words)
  THEN [s |-> s, currentLine |-> currentLine, linesDrawn |-> linesDrawn]
  ELSE LET word == words[k]
           testLine == IF currentLine # <<>>
                       THEN currentLine \o <<" ">> \o word
                       ELSE word
           testWidth == widthOfTextAtSize("font", testLine,
                                          calculateFontSizes(t).contents)
       IN  IF testWidth <= maxWidth(t) /\ linesDrawn < maxLines
           THEN WrapWords(words, k + 1, testLine, linesDrawn, s, t, x)
           ELSE IF currentLine # <<>> /\ linesDrawn < maxLines
           THEN WrapWords(words, k + 1, word, linesDrawn + 1,
                          MoveDown(drawText(s, "contents", currentLine, t, x,
                                            "font"), t), t, x)
           ELSE WrapWords(words, k + 1, word, linesDrawn, s, t, x)

\* variant: the remaining line drawn whatever the number of lines drawn
DrawContentsUncapped(s, order, t, x) ==
  IF Falsy(order, "contents") THEN s
  ELSE LET words == SplitOn(order.contents, " ")
           w == WrapWords(words, 1, <<>>, 0, s, t, x)
           last == IF w.currentLine # <<>>
                   THEN MoveDown(drawText(w.s, "contents", w.currentLine, t,
                                          x, "font"), t)
                   ELSE w.s
       IN  IF w.linesDrawn >= maxLines /\ Len(words) > 0
           THEN Warn(last, "contents")
           ELSE last

\* variant: the remaining line counted in linesDrawn before the warning test
DrawContentsCountsLast(s, order, t, x) ==
  IF Falsy(order, "contents") THEN s
  ELSE LET words == SplitOn(order.contents, " ")
           w == WrapWords(words, 1, <<>>, 0, s, t, x)
           more == w.currentLine # <<>> /\ w.linesDrawn < maxLines
           last == IF more
                   THEN MoveDown(drawText(w.s, "contents", w.currentLine, t,
                                          x, "font"), t)
                   ELSE w.s
       IN  IF w.linesDrawn + (IF more THEN 1 ELSE 0) >= maxLines
              /\ Len(words) > 0
           THEN Warn(last, "contents")
           ELSE last

DrawContents(s, order, t, x) ==
  IF Falsy(order, "contents") THEN s
  ELSE LET words == SplitOn(order.contents, " ")
           w == WrapWords(words, 1, <<>>, 0, s, t, x)
           last == IF w.currentLine # <<>> /\ w.linesDrawn < maxLines
                   THEN MoveDown(drawText(w.s, "contents", w.currentLine, t,
                                          x, "font"), t)
                   ELSE w.s
       IN  IF w.linesDrawn >= maxLines /\ Len(words) > 0
           THEN Warn(last, "contents")
           ELSE last

\* variant: a cursor at y + padding still leaves room for the line
DrawSpecialInstructionsInclusive(s, order, t, x, y) ==
  IF Falsy(order, "specialInstructions")
     \/ Trim(order.specialInstructions) = <<>>
  THEN s
  ELSE LET instructionsText == <<"*", " ">> \o order.specialInstructions
       IN  IF /\ widthOfTextAtSize("font", instructionsText,
                    calculateFontSizes(t).specialInstructions) <= maxWidth(t)
              /\ s.currentY >= y + Padding(t)
           THEN drawText(s, "specialInstructions", instructionsText, t, x,
                         "font")
           ELSE Warn(s, "specialInstructions")

DrawSpecialInstructions(s, order, t, x, y) ==
  IF Falsy(order, "specialInstructions")
     \/ Trim(order.specialInstructions) = <<>>
  THEN s
  ELSE LET instructionsText == <<"*", " ">> \o order.specialInstructions
       IN  IF /\ widthOfTextAtSize("font", instructionsText,
                    calculateFontSizes(t).specialInstructions) <= maxWidth(t)
              /\ s.currentY > y + Padding(t)
           THEN drawText(s, "specialInstructions", instructionsText, t, x,
                         "font")
           ELSE Warn(s, "specialInstructions")

\* the text part of drawLunchLabel, field after field
drawLunchLabel(order, t, x, y) ==
  DrawSpecialInstructions(
    DrawContents(
      DrawGrade(
        DrawStudentName(
          DrawOrderId(StartText(t, y), order, t, x),
          order, t, x),
        order, t, x),
      order, t, x),
    order, t, x, y)

----------------------------------------------------------------------------
(* Inputs of the runs *)

\* profiles a caller can pass besides the built-in ones
CustomProfiles ==
  { Profile("custom", 26250, 10000, 2, 2, 5000, 5000, 1250, 1250),  \* 4 per page
    Profile("custom", 26250, 10000, 1, 1, 5000, 5000, 1250, 1250),  \* 1 per page
    Profile("custom", 30000, 10000, 3, 2, 5000, 5000, 1250, 1250),  \* row too wide
    Profile("custom", 40000, 10000, 1, 12, 5000, 5000, 0, 0),       \* column too tall
    Profile("custom", 10000, 10000, 2, 2, 5000, 5000, -30000, 0),   \* gap < 0
    Profile("custom", 10000, 10000, 1, 2, 5000, 5000, 0, -30000),   \* gap < 0
    Profile("custom", 20000, 100000, 1, 1, 15000, 5000, 0, 0),      \* label 1 too low
    Profile("custom", 26250, 10000, 3, 10, 0, 1875, 1250, 0),       \* marginTop = 0
    Profile("custom", 26250, 10000, 3, 10, 5000, 0, 1250, 0),       \* marginLeft = 0
    Profile("custom", 110000, 10000, 1, 1, 5000, 5000, 0, 0),       \* wider than 10 in
    Profile("custom", 5000, 10000, 11, 2, 5000, 5000, 0, 0),        \* 11 per row
    [name |-> "custom", labelWidth |-> 26250, labelsPerRow |-> 3,   \* no labelHeight
     labelsPerColumn |-> 10, marginTop |-> 5000, marginLeft |-> 1875,
     horizontalGap |-> 1250, verticalGap |-> 0] }

\* one label per page, every combination of dimensions around the tier thresholds
TierWidths == {17500, 19999, 20000, 26250, 35000, 35001, 40000}

TierHeights == {5000, 7499, 7500, 10000, 20000, 20001, 33330}

TierProfiles ==
  { Profile("custom", w, h, 1, 1, 5000, 5000, 1250, 1250) :
      w \in TierWidths, h \in TierHeights }

GoodOrder(i) ==
  LET base == [orderId |-> <<"L">> \o Digits(i),
               studentName |-> <<"A", "n", "n">>,
               grade |-> <<"3">>,
               contents |-> <<"p", "b", " ", "j">>]
  IN  CASE i % 3 = 0 -> base @@ [specialInstructions |-> <<"n", "o", " ", "n", "u", "t">>]
        [] i % 3 = 1 -> base @@ [specialInstructions |-> <<>>]
        [] OTHER     -> base

BadKinds == {"noName", "blankContents", "emptyId", "unencodable"}

BadOrder(i, kind) ==
  LET g == GoodOrder(i)
  IN  CASE kind = "noName"        -> [f \in DOMAIN g \ {"studentName"} |-> g[f]]
        [] kind = "blankContents" -> [g EXCEPT !.contents = <<" ", "\t">>]
        [] kind = "emptyId"       -> [g EXCEPT !.orderId = <<>>]
        [] kind = "unencodable"   -> [g EXCEPT !.studentName = <<"L", "U+4E2D">>]

Orders(n, bad, kind) ==
  [i \in 1..n |-> IF i \in bad THEN BadOrder(i, kind) ELSE GoodOrder(i)]

OrderLists ==
  { Orders(n, {}, "noName") : n \in 0..MaxOrders } \cup
  { Orders(n, bad, kind) :
      n \in 1..MaxBadLen, bad \in SUBSET (1..MaxBadLen), kind \in BadKinds }

ShortValidLists == { Orders(n, {}, "noName") : n \in 1..2 }

\* a text of n copies of the character c
Rep(c, n) == [i \in 1..n |-> c]

\* n words of k letters W, separated by single spaces
WideWords(n, k) ==
  [i \in 1..(n * (k + 1) - 1) |-> IF i % (k + 1) = 0 THEN " " ELSE "W"]

\* orders whose texts are measured against the label: long and short names,
\* contents of one to eight words, fields over the documented lengths
TextOrders ==
  LET g == GoodOrder(3)
  IN  { g,
        [g EXCEPT !.studentName = <<"A", "n", "n">> \o Rep("W", 22)],
        [g EXCEPT !.studentName = <<"W">>],
        [g EXCEPT !.studentName = Rep("i", 51)],
        [g EXCEPT !.orderId = Rep("1", 21)],
        [g EXCEPT !.orderId = Rep("W", 30)],
        [g EXCEPT !.grade = Rep("W", 30)],
        [g EXCEPT !.contents = WideWords(1, 30)],
        [g EXCEPT !.contents = WideWords(2, 11)],
        [g EXCEPT !.contents = WideWords(4, 11)],
        [g EXCEPT !.contents = WideWords(3, 11)],
        [g EXCEPT !.contents = WideWords(6, 11)],
        [g EXCEPT !.contents = WideWords(8, 11)],
        [g EXCEPT !.contents = <<" ", "p", "b">>],
        [g EXCEPT !.contents =
           LET word == Rep("W", 20) \o <<"G">>
           IN  word \o <<" ">> \o word \o <<" ">> \o word \o <<" ">>],
        [g EXCEPT !.contents = <<"p", "e", "a", " ", "n", "u", "t", " ", "b",
                                 "a", "r", " ", "a", "n", "d", " ", "d", "i",
                                 "p">>],
        [g EXCEPT !.contents = <<"p", "b", " ", " ", "j", " ">>],
        [g EXCEPT !.contents = Rep("i", 201)],
        [g EXCEPT !.specialInstructions = Rep("i", 101)],
        [g EXCEPT !.specialInstructions = Rep("W", 30)] }

\* profiles down to labels narrower than their own padding
TextProfiles ==
  { templates["5160"], templates["5167"], templates["5164"],
    Profile("custom", 26250, 6000, 1, 1, 5000, 5000, 0, 0),
    Profile("custom", 5000, 5000, 1, 1, 5000, 5000, 0, 0),
    Profile("custom", 2417, 10000, 1, 1, 5000, 5000, 0, 0),
    Profile("custom", 2000, 10000, 1, 1, 5000, 5000, 0, 0),
    Profile("custom", 1500, 10000, 1, 1, 5000, 5000, 0, 0),
    Profile("custom", 500, 10000, 1, 1, 5000, 5000, 0, 0) }

\* a text order alone, or followed by an ordinary one
TextLists ==
  { <<o>> : o \in TextOrders } \cup
  { <<o, GoodOrder(2)>> : o \in TextOrders } \cup
  { << [GoodOrder(3) EXCEPT !.contents = WideWords(6, 11)],
       [GoodOrder(3) EXCEPT !.contents = WideWords(8, 11)] >> }

GoodPaths == { <<"o", ".", "p", "d", "f">>, <<"d", "/", "o", ".", "p", "d", "f">> }

BadPaths == { <<>>, <<"o", "NUL">> }

Input(a, o, t, p) == [isArray |-> a, orders |-> o, template |-> t, path |-> p]

Inputs ==
  { Input(TRUE, o, t, p) :
      o \in OrderLists, t \in BuiltInProfiles \cup CustomProfiles, p \in GoodPaths }
  \cup
  { Input(TRUE, o, t, <<"o", ".", "p", "d", "f">>) :
      o \in ShortValidLists, t \in TierProfiles }
  \cup
  { Input(TRUE, o, templates["5160"], p) : o \in ShortValidLists, p \in BadPaths }
  \cup
  { Input(TRUE, o, t, <<"o", ".", "p", "d", "f">>) :
      o \in TextLists, t \in TextProfiles }
  \cup
  { Input(FALSE, <<>>, templates["5160"], <<"o", ".", "p", "d", "f">>) }

----------------------------------------------------------------------------
(* createLunchLabels *)

NoError == [kind |-> "none", index |-> 0, detail |-> <<>>]

Err(kind, index, detail) == [kind |-> kind, index |-> index, detail |-> detail]

\* the template registry and the CSV functions are not called
LibIdle ==
  /\ tplCall = "none"
  /\ tplName = <<>>
  /\ tplResult = <<>>
  /\ csvPc = "none"
  /\ csvData = <<>>
  /\ csvText = <<>>
  /\ csvRows = <<>>
  /\ detPc = "none"
  /\ detPages = <<>>
  /\ detectedTemplate = <<>>
  /\ detError = <<>>

Init ==
  /\ \E in \in Inputs :
       /\ inputIsArray = in.isArray
       /\ lunchOrders = in.orders
       /\ template = in.template
       /\ outputPath = in.path
  /\ pc = "start"
  /\ currentPage = 0
  /\ labelIndex = 0
  /\ labelsOnCurrentPage = 0
  /\ pageCount = 0
  /\ drawLog = <<>>
  /\ error = NoError
  /\ saved = FALSE
  /\ dirsMade = {}
  /\ writes = <<>>
  /\ LibIdle

Fail(e) ==
  /\ pc' = "failed"
  /\ error' = e

\* variant: the last invalid order reported instead of the first
FirstInvalidOrderLast ==
  LET bad == {i \in 1..Len(lunchOrders) : ~isValidLunchOrder(lunchOrders[i])}
  IN  IF bad = {} THEN 0 ELSE CHOOSE i \in bad : \A j \in bad : i >= j

\* the first order isValidLunchOrder throws on (0 when there is none)
FirstInvalidOrder ==
  LET bad == {i \in 1..Len(lunchOrders) : ~isValidLunchOrder(lunchOrders[i])}
  IN  IF bad = {} THEN 0 ELSE CHOOSE i \in bad : \A j \in bad : i <= j

Untouched ==
  UNCHANGED <<inputIsArray, lunchOrders, template, outputPath, currentPage,
              labelIndex, labelsOnCurrentPage, pageCount, drawLog, saved,
              dirsMade, writes, libVars>>

RejectNotArray ==
  /\ pc = "start"
  /\ ~inputIsArray
  /\ Fail(Err("Lunch orders must be an array", 0, <<>>))
  /\ Untouched

RejectEmpty ==
  /\ pc = "start"
  /\ inputIsArray
  /\ Len(lunchOrders) = 0
  /\ Fail(Err("Lunch orders array cannot be empty", 0, <<>>))
  /\ Untouched

RejectTemplate ==
  /\ pc = "start"
  /\ inputIsArray
  /\ Len(lunchOrders) # 0
  /\ isValidTemplate(template) # "ok"
  /\ Fail(Err(isValidTemplate(template), 0, MissingTemplateFields(template)))
  /\ Untouched

RejectOutputPath ==
  /\ pc = "start"
  /\ inputIsArray
  /\ Len(lunchOrders) # 0
  /\ isValidTemplate(template) = "ok"
  /\ isValidOutputPath(outputPath) # "ok"
  /\ Fail(Err(isValidOutputPath(outputPath), 0, <<>>))
  /\ Untouched

RejectOrder ==
  /\ pc = "start"
  /\ inputIsArray
  /\ Len(lunchOrders) # 0
  /\ isValidTemplate(template) = "ok"
  /\ isValidOutputPath(outputPath) = "ok"
  /\ FirstInvalidOrder # 0
  /\ Fail(Err("Order missing required fields", FirstInvalidOrder,
              MissingOrderFields(lunchOrders[FirstInvalidOrder])))
  /\ Untouched

\* every check passed: the document is created and the loop variables set
CreateDocument ==
  /\ pc = "start"
  /\ inputIsArray
  /\ Len(lunchOrders) # 0
  /\ isValidTemplate(template) = "ok"
  /\ isValidOutputPath(outputPath) = "ok"
  /\ FirstInvalidOrder = 0
  /\ pc' = "loop"
  /\ currentPage' = 0
  /\ labelIndex' = 0
  /\ labelsOnCurrentPage' = 0
  /\ pageCount' = 0
  /\ UNCHANGED <<inputIsArray, lunchOrders, template, outputPath, drawLog,
                 error, saved, dirsMade, writes, libVars>>

\* variant: the orders taken from the end of the list
IterOrderReversed == lunchOrders[Len(lunchOrders) - labelIndex]

\* one iteration of the for loop, up to the position checks
IterOrder == lunchOrders[labelIndex + 1]

IterNewPage == StartsNewPage(labelIndex, template)

IterPageCount == IF IterNewPage THEN pageCount + 1 ELSE pageCount

IterPage == IF IterNewPage THEN pageCount + 1 ELSE currentPage

IterOnPage == IF IterNewPage THEN 0 ELSE labelsOnCurrentPage

IterRow == Row(IterOnPage, template)

IterCol == Col(IterOnPage, template)

IterX == LabelX(template, IterCol)

IterY == LabelY(template, IterRow)

Drawing(complete) ==
  [order |-> IterOrder, page |-> IterPage, row |-> IterRow, col |-> IterCol,
   x |-> IterX, y |-> IterY,
   width |-> labelWidthPoints(template), height |-> labelHeightPoints(template),
   padding |-> Padding(template), lineHeight |-> LineHeight(template),
   fontSizes |-> calculateFontSizes(template), complete |-> complete,
   text |-> IF complete
            THEN drawLunchLabel(IterOrder, template, IterX, IterY)
            ELSE StartText(template, IterY)]

InLoop == pc = "loop" /\ labelIndex < Len(lunchOrders)

RejectPosition ==
  /\ InLoop
  /\ PositionError(template, IterX, IterY) # "ok"
  /\ Fail(Err(PositionError(template, IterX, IterY), labelIndex + 1, <<>>))
  /\ currentPage' = IterPage
  /\ pageCount' = IterPageCount
  /\ labelsOnCurrentPage' = IterOnPage
  /\ UNCHANGED <<inputIsArray, lunchOrders, template, outputPath, labelIndex,
                 drawLog, saved, dirsMade, writes, libVars>>

\* drawLunchLabel throws after it has drawn the border
DrawFails ==
  /\ InLoop
  /\ PositionError(template, IterX, IterY) = "ok"
  /\ DrawThrows(IterOrder)
  /\ Fail(Err("Failed to draw label", labelIndex + 1, IterOrder.orderId))
  /\ currentPage' = IterPage
  /\ pageCount' = IterPageCount
  /\ labelsOnCurrentPage' = IterOnPage
  /\ drawLog' = Append(drawLog, Drawing(FALSE))
  /\ UNCHANGED <<inputIsArray, lunchOrders, template, outputPath, labelIndex,
                 saved, dirsMade, writes, libVars>>

DrawLabel ==
  /\ InLoop
  /\ PositionError(template, IterX, IterY) = "ok"
  /\ ~DrawThrows(IterOrder)
  /\ currentPage' = IterPage
  /\ pageCount' = IterPageCount
  /\ drawLog' = Append(drawLog, Drawing(TRUE))
  /\ labelIndex' = labelIndex + 1
  /\ labelsOnCurrentPage' = IterOnPage + 1
  /\ UNCHANGED <<pc, inputIsArray, lunchOrders, template, outputPath, error,
                 saved, dirsMade, writes, libVars>>

\* variant: the document saved as soon as one label is drawn
SavePdfEarly ==
  /\ pc = "loop"
  /\ labelIndex >= 1
  /\ saved' = TRUE
  /\ pc' = "mkdir"
  /\ UNCHANGED <<inputIsArray, lunchOrders, template, outputPath, currentPage,
                 labelIndex, labelsOnCurrentPage, pageCount, drawLog, error,
                 dirsMade, writes, libVars>>

SavePdf ==
  /\ pc = "loop"
  /\ labelIndex = Len(lunchOrders)
  /\ saved' = TRUE
  /\ pc' = "mkdir"
  /\ UNCHANGED <<inputIsArray, lunchOrders, template, outputPath, currentPage,
                 labelIndex, labelsOnCurrentPage, pageCount, drawLog, error,
                 dirsMade, writes, libVars>>

SkipMkdir ==
  /\ pc = "mkdir"
  /\ Dirname(outputPath) = <<".">>
  /\ pc' = "write"
  /\ UNCHANGED <<inputIsArray, lunchOrders, template, outputPath, currentPage,
                 labelIndex, labelsOnCurrentPage, pageCount, drawLog, error,
                 saved, dirsMade, writes, libVars>>

MakeOutputDir ==
  /\ pc = "mkdir"
  /\ Dirname(outputPath) # <<".">>
  /\ dirsMade' = dirsMade \cup {Dirname(outputPath)}
  /\ pc' = "write"
  /\ UNCHANGED <<inputIsArray, lunchOrders, template, outputPath, currentPage,
                 labelIndex, labelsOnCurrentPage, pageCount, drawLog, error,
                 saved, writes, libVars>>

\* fs.mkdir rejects (permission denied, a file in the way)
MkdirFails ==
  /\ pc = "mkdir"
  /\ Dirname(outputPath) # <<".">>
  /\ Fail(Err("mkdir failed", 0, Dirname(outputPath)))
  /\ Untouched

WriteOutput ==
  /\ pc = "write"
  /\ writes' = Append(writes, [path |-> outputPath, pages |-> pageCount,
                               labels |-> Len(drawLog)])
  /\ pc' = "done"
  /\ UNCHANGED <<inputIsArray, lunchOrders, template, outputPath, currentPage,
                 labelIndex, labelsOnCurrentPage, pageCount, drawLog, error,
                 saved, dirsMade, libVars>>

Next ==
  \/ RejectNotArray
  \/ RejectEmpty
  \/ RejectTemplate
  \/ RejectOutputPath
  \/ RejectOrder
  \/ CreateDocument
  \/ RejectPosition
  \/ DrawFails
  \/ DrawLabel
  \/ SavePdf
  \/ SkipMkdir
  \/ MakeOutputDir
  \/ MkdirFails
  \/ WriteOutput

Spec == Init /\ [][Next]_vars

----------------------------------------------------------------------------
(* The template registry: templates.js and the CLI's own copy in index.js *)

\* the templates object of templates.js, its entries in the order written
templateEntries ==
  << [key |-> <<"5", "1", "6", "0">>, value |-> templates["5160"]],
     [key |-> <<"8", "1", "6", "0">>, value |-> templates["8160"]],
     [key |-> <<"5", "1", "6", "2">>, value |-> templates["5162"]],
     [key |-> <<"5", "1", "6", "3">>, value |-> templates["5163"]],
     [key |-> <<"8", "1", "6", "3">>, value |-> templates["8163"]],
     [key |-> <<"5", "1", "6", "4">>, value |-> templates["5164"]],
     [key |-> <<"8", "1", "6", "4">>, value |-> templates["8164"]],
     [key |-> <<"5", "1", "6", "7">>, value |-> templates["5167"]] >>

\* the templates object local to getTemplateByName of index.js
cliTemplateEntries ==
  << [key |-> <<"5", "1", "6", "0">>, value |-> cliTemplates["5160"]],
     [key |-> <<"8", "1", "6", "0">>, value |-> cliTemplates["8160"]],
     [key |-> <<"5", "1", "6", "4">>, value |-> cliTemplates["5164"]],
     [key |-> <<"8", "1", "6", "4">>, value |-> cliTemplates["8164"]] >>

custom == <<"c", "u", "s", "t", "o", "m">>

\* validTemplates of index.js
validTemplates ==
  << <<"5", "1", "6", "0">>, <<"8", "1", "6", "0">>, <<"5", "1", "6", "4">>,
     <<"8", "1", "6", "4">>, custom >>

\* members every object literal inherits from Object.prototype
ObjectPrototypeMembers ==
  { <<"t", "o", "S", "t", "r", "i", "n", "g">>,
    <<"c", "o", "n", "s", "t", "r", "u", "c", "t", "o", "r">>,
    <<"v", "a", "l", "u", "e", "O", "f">>,
    <<"_", "_", "p", "r", "o", "t", "o", "_", "_">> }

OwnKeys(entries) == [i \in 1..Len(entries) |-> entries[i].key]

Includes(list, x) == \E i \in 1..Len(list) : list[i] = x

\* obj[name]: an own entry, else a member found on the prototype chain, else
\* undefined
GetMember(entries, name) ==
  IF Includes(OwnKeys(entries), name)
  THEN [kind |-> "profile",
        value |-> entries[CHOOSE i \in 1..Len(entries) : entries[i].key = name].value]
  ELSE IF name \in ObjectPrototypeMembers
  THEN [kind |-> "inherited", value |-> name]
  ELSE [kind |-> "undefined", value |-> name]

DigitValue(c) == (CHOOSE i \in 1..10 : DigitChar[i] = c) - 1

\* a key that is the canonical decimal form of an integer
IsArrayIndex(key) ==
  /\ key # <<>>
  /\ \A i \in 1..Len(key) : Includes(DigitChar, key[i])
  /\ (Len(key) > 1 => key[1] # "0")

RECURSIVE ArrayIndex(_)
ArrayIndex(key) ==
  IF key = <<>> THEN 0
  ELSE ArrayIndex(SubSeq(key, 1, Len(key) - 1)) * 10 + DigitValue(key[Len(key)])

RECURSIVE Ascending(_)
Ascending(keys) ==
  IF keys = {} THEN <<>>
  ELSE LET least == CHOOSE k \in keys : \A j \in keys : ArrayIndex(k) <= ArrayIndex(j)
       IN  <<least>> \o Ascending(keys \ {least})

\* Object.keys: the integer keys in ascending numeric order, then the other
\* keys in the order they were written
ObjectKeys(entries) ==
  Ascending({k \in {entries[i].key : i \in 1..Len(entries)} : IsArrayIndex(k)})
    \o SelectSeq(OwnKeys(entries), LAMBDA k : ~IsArrayIndex(k))

Threw(message) == [kind |-> "threw", value |-> message]

\* templates.js
getTemplateByName(templateName) ==
  IF GetMember(templateEntries, templateName).kind = "undefined"
  THEN Threw("Unknown template")
  ELSE GetMember(templateEntries, templateName)

\* templates.js: the object itself; iterating it visits its keys as
\* Object.keys lists them
getAllTemplates == [kind |-> "object", value |-> ObjectKeys(templateEntries)]

getTemplateNames == [kind |-> "names", value |-> ObjectKeys(templateEntries)]

isValidTemplateName(name) ==
  [kind |-> "boolean",
   value |-> Includes(ObjectKeys(templateEntries), name) \/ name = custom]

\* index.js: validateInput.isValidTemplateName
cliIsValidTemplateName(name) ==
  [kind |-> "boolean", value |-> Includes(validTemplates, name)]

\* index.js: getTemplateByName
cliGetTemplateByName(templateName) ==
  IF GetMember(cliTemplateEntries, templateName).kind = "undefined"
  THEN Threw("Unknown template")
  ELSE GetMember(cliTemplateEntries, templateName)

\* index.js: the generate command with --template-name and no --template
generateTemplate(templateName) ==
  IF ~cliIsValidTemplateName(templateName).value
  THEN Threw("Invalid template name")
  ELSE cliGetTemplateByName(templateName)

\* names a caller or the command line can pass
TemplateQueries ==
  {templateEntries[i].key : i \in 1..Len(templateEntries)} \cup
  ObjectPrototypeMembers \cup
  { custom, <<>>, <<"5", "1", "6", "1">>, <<"5", "1", "6">>,
    <<"0", "5", "1", "6", "0">>, <<"A", "v", "e", "r", "y">> }

\* createLunchLabels is not running
GenIdle ==
  /\ pc = "idle"
  /\ inputIsArray = FALSE
  /\ lunchOrders = <<>>
  /\ template = templates["5160"]
  /\ outputPath = <<>>
  /\ currentPage = 0
  /\ labelIndex = 0
  /\ labelsOnCurrentPage = 0
  /\ pageCount = 0
  /\ drawLog = <<>>
  /\ error = NoError
  /\ saved = FALSE
  /\ dirsMade = {}
  /\ writes = <<>>

CsvIdle ==
  /\ csvPc = "none"
  /\ csvData = <<>>
  /\ csvText = <<>>
  /\ csvRows = <<>>

\* no template PDF is being analysed
DetIdle ==
  /\ detPc = "none"
  /\ detPages = <<>>
  /\ detectedTemplate = <<>>
  /\ detError = <<>>

InitRegistry ==
  /\ GenIdle
  /\ CsvIdle
  /\ DetIdle
  /\ tplName \in TemplateQueries
  /\ tplCall = "none"
  /\ tplResult = <<>>

\* a call with the name tplName, its outcome kept under the name of the call
Called(call, outcome) ==
  /\ call \notin DOMAIN tplResult
  /\ tplResult' = tplResult @@ (call :> outcome)
  /\ tplCall' = call
  /\ UNCHANGED <<tplName, genVars, csvVars, detVars>>

CallGetTemplateByName ==
  /\ pc = "idle"
  /\ Called("getTemplateByName", getTemplateByName(tplName))

CallIsValidTemplateName ==
  /\ pc = "idle"
  /\ Called("isValidTemplateName", isValidTemplateName(tplName))

CallGetTemplateNames ==
  /\ pc = "idle"
  /\ Called("getTemplateNames", getTemplateNames)

CallGetAllTemplates ==
  /\ pc = "idle"
  /\ Called("getAllTemplates", getAllTemplates)

CliIsValidTemplateName ==
  /\ pc = "idle"
  /\ Called("cli.isValidTemplateName", cliIsValidTemplateName(tplName))

CliGetTemplateByName ==
  /\ pc = "idle"
  /\ Called("cli.getTemplateByName", cliGetTemplateByName(tplName))

\* lines 109-111 and 152-153 of the generate action
GenerateTemplate ==
  /\ pc = "idle"
  /\ Called("generate", generateTemplate(tplName))

NextRegistry ==
  \/ CallGetTemplateByName
  \/ CallIsValidTemplateName
  \/ CallGetTemplateNames
  \/ CallGetAllTemplates
  \/ CliIsValidTemplateName
  \/ CliGetTemplateByName
  \/ GenerateTemplate

SpecRegistry == InitRegistry /\ [][NextRegistry]_vars

----------------------------------------------------------------------------
(* dataHandler.js: convertToCSV and parseCSV *)

MaxCsvRows == 2

\* the names of the fields of an order, as texts
kOrderId == <<"o", "r", "d", "e", "r", "I", "d">>

kStudentName == <<"s", "t", "u", "d", "e", "n", "t", "N", "a", "m", "e">>

kGrade == <<"g", "r", "a", "d", "e">>

kContents == <<"c", "o", "n", "t", "e", "n", "t", "s">>

kSpecialInstructions ==
  <<"s", "p", "e", "c", "i", "a", "l", "I", "n", "s", "t", "r", "u", "c", "t", "i", "o", "n", "s">>

requiredHeaders == <<kOrderId, kStudentName, kGrade, kContents>>

\* an object: its properties in the order they were created
Property(key, value) == [key |-> key, value |-> value]

Keys(obj) == [i \in 1..Len(obj) |-> obj[i].key]

\* obj[key], the empty text where the property is absent
Field(obj, key) ==
  IF Includes(Keys(obj), key)
  THEN obj[CHOOSE i \in 1..Len(obj) : obj[i].key = key].value
  ELSE <<>>

\* Array.prototype.join(separator)
RECURSIVE Join(_, _)
Join(pieces, separator) ==
  IF pieces = <<>> THEN <<>>
  ELSE IF Len(pieces) = 1 THEN pieces[1]
  ELSE pieces[1] \o <<separator>> \o Join(Tail(pieces), separator)

\* value.replace(/"/g, '""')
RECURSIVE DoubleQuotes(_)
DoubleQuotes(value) ==
  IF value = <<>> THEN <<>>
  ELSE IF Head(value) = "\"" THEN <<"\"", "\"">> \o DoubleQuotes(Tail(value))
  ELSE <<Head(value)>> \o DoubleQuotes(Tail(value))

\* variant: every value written between double quotes
CsvValueQuoted(value) == <<"\"">> \o DoubleQuotes(value) \o <<"\"">>

\* the text convertToCSV writes for one value
CsvValue(value) ==
  IF \E k \in 1..Len(value) : value[k] \in {",", "\"", "\n", "\r"}
  THEN <<"\"">> \o DoubleQuotes(value) \o <<"\"">>
  ELSE value

\* the first item with other properties than the first one (0 when none)
FirstOtherShape(data) ==
  LET headers == Keys(data[1])
      other == {i \in 2..Len(data) :
                  \/ Len(Keys(data[i])) # Len(headers)
                  \/ \E h \in 1..Len(headers) : ~Includes(Keys(data[i]), headers[h])}
  IN  IF other = {} THEN 0 ELSE CHOOSE i \in other : \A j \in other : i <= j

convertToCSV(data) ==
  IF Len(data) = 0 THEN Threw("Data must be a non-empty array")
  ELSE IF Len(data[1]) = 0
  THEN Threw("Data objects must have at least one property")
  ELSE IF FirstOtherShape(data) # 0
  THEN Threw("Item has different properties than the first item")
  ELSE LET headers == Keys(data[1])
           csvLines == <<Join(headers, ",")>> \o
             [i \in 1..Len(data) |->
                Join([h \in 1..Len(headers) |->
                        CsvValue(Field(data[i], headers[h]))], ",")]
       IN  [kind |-> "text", value |-> Join(csvLines, "\n")]

TrimAll(pieces) == [i \in 1..Len(pieces) |-> Trim(pieces[i])]

\* the loop of parseCSV over the lines after the header, from line i on
RECURSIVE ParseRows(_, _, _, _)
ParseRows(lines, headers, i, data) ==
  IF i > Len(lines)
  THEN IF data = <<>> THEN Threw("No valid data rows found in CSV file")
       ELSE [kind |-> "rows", value |-> data]
  ELSE LET line == Trim(lines[i])
           values == TrimAll(SplitOn(line, ","))
           row == [h \in 1..Len(headers) |-> Property(headers[h], values[h])]
       IN  IF line = <<>> THEN ParseRows(lines, headers, i + 1, data)
           ELSE IF Len(values) # Len(headers)
           THEN Threw("Column count mismatch")
           ELSE IF \E f \in 1..Len(requiredHeaders) :
                     Trim(Field(row, requiredHeaders[f])) = <<>>
           THEN Threw("Missing required fields")
           ELSE ParseRows(lines, headers, i + 1, Append(data, row))

parseCSV(content) ==
  LET lines == SplitOn(Trim(content), "\n")
      headers == TrimAll(SplitOn(lines[1], ","))
  IN  IF Len(lines) < 2
      THEN Threw("CSV file must have at least a header row and one data row")
      ELSE IF \E f \in 1..Len(requiredHeaders) :
                ~Includes(headers, requiredHeaders[f])
      THEN Threw("Missing required headers")
      ELSE ParseRows(lines, headers, 2, <<>>)

\* student names and notes written to a file: plain, padded with a blank,
\* blank, and with each character convertToCSV escapes
CsvNames ==
  { <<"A", "n", "n">>, <<" ", "A", "n", "n">>, <<"A", "n", "n", " ">>,
    <<" ">>, <<"A", ",", "n">>, <<"A", "\"", "n">>, <<"A", "\n", "n">>,
    <<"A", "\r", "n">> }

CsvNotes == { <<>>, <<"n", "o", " ", "n", "u", "t">>, <<"n", "o", "\t">> }

CsvOrder(name) ==
  << Property(kOrderId, <<"L", "1">>), Property(kStudentName, name),
     Property(kGrade, <<"3">>), Property(kContents, <<"p", "b", " ", "j">>) >>

CsvOrders ==
  { CsvOrder(name) : name \in CsvNames } \cup
  { Append(CsvOrder(name), Property(kSpecialInstructions, note)) :
      name \in CsvNames, note \in CsvNotes } \cup
  { << Property(kStudentName, <<"A", "n", "n">>),
       Property(kOrderId, <<"L", "1">>),
       Property(kContents, <<"p", "b", " ", "j">>),
       Property(kGrade, <<"3">>) >>,
    << Property(kOrderId, <<"L", "1">>),
       Property(kStudentName, <<"A", "n", "n">>) >> }

CsvLists == UNION { [1..n -> CsvOrders] : n \in 0..MaxCsvRows }

TplIdle ==
  /\ tplCall = "none"
  /\ tplName = <<>>
  /\ tplResult = <<>>

InitCsv ==
  /\ GenIdle
  /\ TplIdle
  /\ DetIdle
  /\ csvPc = "data"
  /\ csvData \in CsvLists
  /\ csvText = <<>>
  /\ csvRows = <<>>

ConvertToCSV ==
  /\ csvPc = "data"
  /\ convertToCSV(csvData).kind = "text"
  /\ csvText' = convertToCSV(csvData).value
  /\ csvPc' = "text"
  /\ UNCHANGED <<csvData, csvRows, genVars, tplVars, detVars>>

ConvertToCSVThrows ==
  /\ csvPc = "data"
  /\ convertToCSV(csvData).kind = "threw"
  /\ csvPc' = "CSV conversion error"
  /\ UNCHANGED <<csvData, csvText, csvRows, genVars, tplVars, detVars>>

ParseCSV ==
  /\ csvPc = "text"
  /\ parseCSV(csvText).kind = "rows"
  /\ csvRows' = parseCSV(csvText).value
  /\ csvPc' = "parsed"
  /\ UNCHANGED <<csvData, csvText, genVars, tplVars, detVars>>

ParseCSVThrows ==
  /\ csvPc = "text"
  /\ parseCSV(csvText).kind = "threw"
  /\ csvPc' = "CSV parsing error"
  /\ UNCHANGED <<csvData, csvText, csvRows, genVars, tplVars, detVars>>

NextCsv ==
  \/ ConvertToCSV
  \/ ConvertToCSVThrows
  \/ ParseCSV
  \/ ParseCSVThrows

SpecCsv == InitCsv /\ [][NextCsv]_vars

----------------------------------------------------------------------------
(* Template inference (src/src/templateDetector.js)                        *)
(*                                                                         *)
(* A page size is in points as pdf-lib reports it, in 1/10000 pt like the  *)
(* positions of the generator; the inch quantities are in 1/10000 in.      *)
(* The page sizes of the model are those whose thirds and tenths, after    *)
(* the margins, are whole units, so that every quotient of the source is   *)
(* computed exactly.  An object holds its NaN-valued fields as the set     *)
(* under the key "NaN" (absent when no field is NaN).                      *)

\* Math.abs
Abs(x) == IF x < 0 THEN -x ELSE x

\* Math.min
Min(a, b) == IF a <= b THEN a ELSE b

\* Math.floor(a / b), b # 0
Floor(a, b) == IF b > 0 THEN a \div b ELSE (0 - a) \div (0 - b)

NaNFields(obj) == IF "NaN" \in DOMAIN obj THEN obj["NaN"] ELSE {}

standardPageSizes ==
  << [name |-> "letter", width |-> 85000, height |-> 110000],
     [name |-> "a4", width |-> 82700, height |-> 116900] >>

\* the third parameter, knownTemplates, is not read by the source
matchTemplateToPage(pageWidth, pageHeight) ==
  IF \E i \in 1..Len(standardPageSizes) :
       /\ Abs(pageWidth - standardPageSizes[i].width) < 1000
       /\ Abs(pageHeight - standardPageSizes[i].height) < 1000
  THEN Profile("5160", 26250, 10000, 3, 10, 5000, 1875, 1250, 0)
  ELSE <<>>

createCustomTemplate(pageWidth, pageHeight) ==
  LET margin == 5000
      availableWidth == pageWidth - 2 * margin
      availableHeight == pageHeight - 2 * margin
      estimatedLabelWidth == Min(availableWidth \div 3, 30000)
      estimatedLabelHeight == Min(availableHeight \div 10, 15000)
      \* 0 / 0 is NaN
      rowNaN == availableWidth = 0 /\ estimatedLabelWidth = 0
      columnNaN == availableHeight = 0 /\ estimatedLabelHeight = 0
      numbers ==
        [f \in ({"labelWidth", "labelHeight", "marginTop", "marginLeft",
                 "horizontalGap", "verticalGap"}
                \cup (IF rowNaN THEN {} ELSE {"labelsPerRow"})
                \cup (IF columnNaN THEN {} ELSE {"labelsPerColumn"})) |->
           CASE f = "labelWidth" -> estimatedLabelWidth
             [] f = "labelHeight" -> estimatedLabelHeight
             [] f = "labelsPerRow" -> Floor(availableWidth, estimatedLabelWidth)
             [] f = "labelsPerColumn" ->
                  Floor(availableHeight, estimatedLabelHeight)
             [] f = "marginTop" -> margin
             [] f = "marginLeft" -> margin
             [] f = "horizontalGap" -> 1250
             [] f = "verticalGap" -> 1250]
      notNumbers == (IF rowNaN THEN {"labelsPerRow"} ELSE {})
                      \cup (IF columnNaN THEN {"labelsPerColumn"} ELSE {})
  IN  ("name" :> "custom") @@ numbers
        @@ (IF notNumbers = {} THEN <<>> ELSE ("NaN" :> notNumbers))

detectLabelLayout(pageWidth, pageHeight) ==
  LET pageWidthInches == pageWidth \div PointsPerInch
      pageHeightInches == pageHeight \div PointsPerInch
      detected == matchTemplateToPage(pageWidthInches, pageHeightInches)
  IN  IF detected # <<>>
      THEN detected
      ELSE createCustomTemplate(pageWidthInches, pageHeightInches)

detectorRequiredFields ==
  <<"labelWidth", "labelHeight", "labelsPerRow", "labelsPerColumn",
    "marginTop", "marginLeft">>

\* typeof template[field] !== 'number' || template[field] <= 0, which is
\* false of a NaN
DetectorFieldInvalid(t, field) ==
  /\ field \notin NaNFields(t)
  /\ field \notin DOMAIN t \/ t[field] <= 0

\* "true", or the field the error names
validateTemplate(t) ==
  LET bad == {i \in 1..Len(detectorRequiredFields) :
                DetectorFieldInvalid(t, detectorRequiredFields[i])}
  IN  IF bad = {}
      THEN "true"
      ELSE detectorRequiredFields[CHOOSE i \in bad : \A j \in bad : i <= j]

\* page sizes in 1/10000 in: a quarter inch to 14.5 in wide, half an inch to
\* 17.5 in high, letter and A4 and their neighbours among them
PageSizes ==
  LET widths == {2500, 10000, 13000, 40000, 82600, 84400, 85000, 100000,
                 130000, 145000}
      heights == {5000, 10000, 20000, 110000, 110500, 116900, 160000, 175000}
  IN  {[width |-> w * PointsPerInch, height |-> h * PointsPerInch] :
         w \in widths, h \in heights}

TemplatePdfs == {<<>>} \cup {<<p>> : p \in PageSizes}

InitDetector ==
  /\ GenIdle
  /\ TplIdle
  /\ CsvIdle
  /\ detPc = "start"
  /\ detPages \in TemplatePdfs
  /\ detectedTemplate = <<>>
  /\ detError = <<>>

\* analyzeTemplate on a PDF without pages
AnalyzeNoPages ==
  /\ detPc = "start"
  /\ Len(detPages) = 0
  /\ detPc' = "failed"
  /\ detError' = <<"Failed to analyze template", "Template PDF has no pages">>
  /\ UNCHANGED <<detPages, detectedTemplate, genVars, tplVars, csvVars>>

\* analyzeTemplate on a first page of a standard size
AnalyzeKnownPage ==
  /\ detPc = "start"
  /\ Len(detPages) > 0
  /\ LET firstPage == detPages[1]
     IN  /\ matchTemplateToPage(firstPage.width \div PointsPerInch,
                                firstPage.height \div PointsPerInch) # <<>>
         /\ detectedTemplate' =
              detectLabelLayout(firstPage.width, firstPage.height)
  /\ detPc' = "analyzed"
  /\ UNCHANGED <<detPages, detError, genVars, tplVars, csvVars>>

\* analyzeTemplate on a first page of any other size
AnalyzeCustomPage ==
  /\ detPc = "start"
  /\ Len(detPages) > 0
  /\ LET firstPage == detPages[1]
     IN  /\ matchTemplateToPage(firstPage.width \div PointsPerInch,
                                firstPage.height \div PointsPerInch) = <<>>
         /\ detectedTemplate' =
              detectLabelLayout(firstPage.width, firstPage.height)
  /\ detPc' = "analyzed"
  /\ UNCHANGED <<detPages, detError, genVars, tplVars, csvVars>>

\* validateTemplate(getDetectedTemplate()) returns true
ValidateTemplate ==
  /\ detPc = "analyzed"
  /\ validateTemplate(detectedTemplate) = "true"
  /\ detPc' = "validated"
  /\ UNCHANGED <<detPages, detectedTemplate, detError, genVars, tplVars,
                 csvVars>>

\* validateTemplate(getDetectedTemplate()) throws
ValidateTemplateThrows ==
  /\ detPc = "analyzed"
  /\ validateTemplate(detectedTemplate) # "true"
  /\ detPc' = "rejected"
  /\ detError' = <<"Invalid template: missing or invalid",
                   validateTemplate(detectedTemplate)>>
  /\ UNCHANGED <<detPages, detectedTemplate, genVars, tplVars, csvVars>>

NextDetector ==
  \/ AnalyzeNoPages
  \/ AnalyzeKnownPage
  \/ AnalyzeCustomPage
  \/ ValidateTemplate
  \/ ValidateTemplateThrows

SpecDetector == InitDetector /\ [][NextDetector]_vars

----------------------------------------------------------------------------
(* Properties *)

N == Len(lunchOrders)

Drawn == {drawLog[i] : i \in 1..Len(drawLog)}

HasGeometry(t) ==
  {"labelWidth", "labelHeight", "labelsPerRow", "labelsPerColumn", "marginTop",
   "marginLeft", "horizontalGap", "verticalGap"} \subseteq DOMAIN t

\* the placement stated for the order with 0-based global index g
StatedRow(g) == (g % (template.labelsPerRow * template.labelsPerColumn))
                  \div template.labelsPerRow

StatedCol(g) == (g % (template.labelsPerRow * template.labelsPerColumn))
                  % template.labelsPerRow

StatedX(col) ==
  72 * template.marginLeft
    + col * 72 * (template.labelWidth + template.horizontalGap)

StatedY(row) ==
  792 * 10000
    - (72 * template.marginTop
         + row * 72 * (template.labelHeight + template.verticalGap))
    - 72 * template.labelHeight

\* C1: when generation completes, exactly one label has been drawn per order,
\* the i-th label drawn is for the i-th order, and the page index of
\* successive labels never decreases (at every point of the run the labels
\* drawn so far are the first orders, in order).
C1_OneLabelPerOrderInOrder ==
  /\ Len(drawLog) <= N
  /\ \A i \in 1..Len(drawLog) : drawLog[i].order = lunchOrders[i]
  /\ \A i, j \in 1..Len(drawLog) : i <= j => drawLog[i].page <= drawLog[j].page
  /\ pc = "done" =>
       /\ Len(drawLog) = N
       /\ \A i \in 1..N : drawLog[i].complete

C1_Witness ==
  /\ pc = "done"
  /\ N >= 5
  /\ drawLog[1].page = 1
  /\ drawLog[N].page >= 3
  /\ drawLog[1].order # drawLog[2].order

\* C2: the order with 0-based global index g is placed at
\* row = floor((g mod C) / labelsPerRow), column = (g mod C) mod labelsPerRow,
\* C = labelsPerRow * labelsPerColumn: the per-page counter used to place a
\* label equals labelIndex mod C.
C2_RowColumnFromGlobalIndex ==
  /\ \A i \in 1..Len(drawLog) :
       /\ drawLog[i].row = StatedRow(i - 1)
       /\ drawLog[i].col = StatedCol(i - 1)
  /\ InLoop =>
       IterOnPage = labelIndex % (template.labelsPerRow * template.labelsPerColumn)

C2_Witness ==
  /\ template.labelsPerRow = 2
  /\ template.labelsPerColumn = 2
  /\ Len(drawLog) >= 8
  /\ drawLog[8].page = 2
  /\ drawLog[8].row = 1
  /\ drawLog[8].col = 1

CellsOnPage(p) == {<<d.row, d.col>> : d \in {e \in Drawn : e.page = p}}

CountOnPage(p) == Cardinality({i \in 1..Len(drawLog) : drawLog[i].page = p})

OnePageOf(n, cells) ==
  /\ pageCount = 1
  /\ CountOnPage(1) = n
  /\ CellsOnPage(1) = cells

FullPagePlusOne ==
  /\ pageCount = 2
  /\ CountOnPage(1) = 30
  /\ CellsOnPage(1) = (0..9) \X (0..2)
  /\ CountOnPage(2) = 1
  /\ CellsOnPage(2) = {<<0, 0>>}

Done3x10 ==
  pc = "done" /\ template.labelsPerRow = 3 /\ template.labelsPerColumn = 10

\* C3 as stated: with labelsPerRow = 3 and labelsPerColumn = 10, 25 orders give
\* one page with rows 0..7 full and row 8 holding columns 0 and 1; 30 orders
\* give one full page; 31 orders give two pages, the second with one label at
\* row 0, column 0.
C3_StatedPacking ==
  Done3x10 =>
    /\ N = 25 => OnePageOf(25, ((0..7) \X (0..2)) \cup {<<8, 0>>, <<8, 1>>})
    /\ N = 30 => OnePageOf(30, (0..9) \X (0..2))
    /\ N = 31 => FullPagePlusOne

\* C3 amended: with labelsPerRow = 3 and labelsPerColumn = 10, 25 orders give
\* one page with rows 0..7 full and row 8 holding column 0 only; 30 orders give
\* one full page; 31 orders give two pages, the second with one label at
\* row 0, column 0.
C3_GridPacking ==
  Done3x10 =>
    /\ N = 25 => OnePageOf(25, ((0..7) \X (0..2)) \cup {<<8, 0>>})
    /\ N = 30 => OnePageOf(30, (0..9) \X (0..2))
    /\ N = 31 => FullPagePlusOne

C3_Witness ==
  /\ pc = "done"
  /\ template.labelsPerRow = 3
  /\ template.labelsPerColumn = 10
  /\ N = 31
  /\ Len(drawLog) = 31

\* C4: every placed label has its origin at
\* x = 72*marginLeft + column*72*(labelWidth + horizontalGap) and
\* y = 792 - (72*marginTop + row*72*(labelHeight + verticalGap)) - 72*labelHeight,
\* with width 72*labelWidth and height 72*labelHeight.
C4_RectangleInPoints ==
  \A d \in Drawn :
    /\ d.x = StatedX(d.col)
    /\ d.y = StatedY(d.row)
    /\ d.width = 72 * template.labelWidth
    /\ d.height = 72 * template.labelHeight

C4_Witness ==
  \E d \in Drawn :
    /\ d.row >= 1
    /\ d.col >= 1
    /\ template.horizontalGap > 0
    /\ template.verticalGap > 0
    /\ d.complete

Is5160With3Orders ==
  /\ pc = "done"
  /\ HasGeometry(template)
  /\ template.labelsPerRow = 3 /\ template.labelsPerColumn = 10
  /\ template.labelWidth = 26250 /\ template.labelHeight = 10000
  /\ template.marginTop = 5000 /\ template.marginLeft = 1875
  /\ template.horizontalGap = 1250 /\ template.verticalGap = 0
  /\ N = 3

OnePageRowZero ==
  /\ pageCount = 1
  /\ Len(drawLog) = 3
  /\ \A i \in 1..3 :
       drawLog[i].page = 1 /\ drawLog[i].row = 0 /\ drawLog[i].col = i - 1

\* C5 as stated: the profile 3 x 10, 2.625 x 1.0 in, margins 0.5 / 0.1875 in,
\* gaps 0.125 / 0 in with 3 orders gives exactly one page and labels at (0,0),
\* (0,1), (0,2) with x = 13.5, 202.5, 391.5 points and y = 684 points.
C5_StatedXPositions ==
  Is5160With3Orders =>
    /\ OnePageRowZero
    /\ \A i \in 1..3 : drawLog[i].y = 6840000
    /\ drawLog[1].x = 135000
    /\ drawLog[2].x = 2025000
    /\ drawLog[3].x = 3915000

\* C5 amended: the same profile with 3 orders gives exactly one page and
\* labels at (0,0), (0,1), (0,2) with x = 13.5, 211.5, 409.5 points (the
\* column pitch is labelWidth + horizontalGap = 198 points) and y = 684 points.
C5_ThreeLabelsOf5160 ==
  Is5160With3Orders =>
    /\ OnePageRowZero
    /\ \A i \in 1..3 : drawLog[i].y = 6840000
    /\ drawLog[1].x = 135000
    /\ drawLog[2].x = 2115000
    /\ drawLog[3].x = 4095000

C5_Witness ==
  /\ pc = "done"
  /\ template = templates["5160"]
  /\ N = 3
  /\ Len(drawLog) = 3

PositionErrors ==
  {"too far left", "too far down", "beyond right edge", "beyond top edge"}

InsidePage(x, y, w, h) ==
  x >= 0 /\ y >= 0 /\ x + w <= 612 * 10000 /\ y + h <= 792 * 10000

\* the rectangle stated for the order with 0-based index g leaves the page
StatedOutOfPage(g) ==
  ~InsidePage(StatedX(StatedCol(g)), StatedY(StatedRow(g)),
              72 * template.labelWidth, 72 * template.labelHeight)

C6_DrawnInsidePage ==
  /\ \A d \in Drawn : InsidePage(d.x, d.y, d.width, d.height)
  /\ (pc = "failed" /\ error.kind \in PositionErrors) =>
       /\ error.index = Len(drawLog) + 1
       /\ StatedOutOfPage(error.index - 1)

C6_StopsAtFirstOutside ==
  (InLoop /\ StatedOutOfPage(labelIndex)) =>
    /\ pc' = "failed"
    /\ error'.kind \in PositionErrors
    /\ error'.index = labelIndex + 1
    /\ drawLog' = drawLog
    /\ labelIndex' = labelIndex

\* C6: every label drawn has its rectangle inside the page (x >= 0, y >= 0,
\* x + width <= 612, y + height <= 792); when the rectangle of the order at
\* 0-based index i violates a bound, the run stops there with an error naming
\* label i + 1 and neither that order nor a later one is drawn.
C6_InsidePageOrStop == [](C6_DrawnInsidePage) /\ [][C6_StopsAtFirstOutside]_vars

C6_Witness ==
  /\ pc = "failed"
  /\ error.kind = "beyond right edge"
  /\ error.index = 3
  /\ Len(drawLog) = 2
  /\ N >= 4

RowWidth(t) ==
  t.marginLeft + t.labelsPerRow * t.labelWidth
    + (t.labelsPerRow - 1) * t.horizontalGap

ColumnHeight(t) ==
  t.marginTop + t.labelsPerColumn * t.labelHeight
    + (t.labelsPerColumn - 1) * t.verticalGap

\* C7: a profile whose marginLeft + labelsPerRow*labelWidth +
\* (labelsPerRow-1)*horizontalGap exceeds the page width (8.5 in = 612 points)
\* is rejected by profile validation before any label position is computed
\* and before anything is drawn, whatever the number of orders.
C7_WideProfileRejectedByValidation ==
  (HasGeometry(template) /\ RowWidth(template) > 85000) =>
    /\ pc \in {"start", "failed"}
    /\ pageCount = 0
    /\ drawLog = <<>>
    /\ pc = "failed" => error.kind \notin PositionErrors

\* C8: the output file is written at most once and only after every order has
\* been validated, placed and drawn; a run that fails has written nothing to
\* the output path.
C8_WriteOnceAfterAllOrders ==
  /\ Len(writes) <= 1
  /\ writes # <<>> =>
       /\ pc = "done"
       /\ saved
       /\ error = NoError
       /\ writes[1].path = outputPath
       /\ Len(drawLog) = N
       /\ \A i \in 1..N :
            /\ isValidLunchOrder(lunchOrders[i])
            /\ drawLog[i].order = lunchOrders[i]
            /\ drawLog[i].complete
  /\ pc = "failed" => writes = <<>>

C8_Witness ==
  /\ pc = "done"
  /\ Len(writes) = 1
  /\ N >= 5
  /\ pageCount >= 2
  /\ dirsMade # {}

\* C9: every built-in profile (the 8 of templates.js, the 4 of the CLI's
\* getTemplateByName) has marginLeft + labelsPerRow*labelWidth +
\* (labelsPerRow-1)*horizontalGap <= 8.5 in and marginTop +
\* labelsPerColumn*labelHeight + (labelsPerColumn-1)*verticalGap <= 11 in, so
\* a run with a built-in profile never raises a position error.
C9_BuiltInProfilesFitPage ==
  template \in BuiltInProfiles =>
    /\ RowWidth(template) <= 85000
    /\ ColumnHeight(template) <= 110000
    /\ ~(pc = "failed" /\ error.kind \in PositionErrors)

StatedTier(w, h) ==
  IF w < 20000 \/ h < 7500 THEN "small"
  ELSE IF w > 35000 \/ h > 20000 THEN "large"
  ELSE "medium"

StatedPadding == [small |-> 36000, medium |-> 86400, large |-> 144000]

StatedLineSpacing == [small |-> 80000, medium |-> 100000, large |-> 120000]

\* C10: the tier is small iff labelWidth < 2.0 or labelHeight < 0.75, otherwise
\* large iff labelWidth > 3.5 or labelHeight > 2.0, otherwise medium (2.625 x
\* 1.0 is medium, 1.75 x 0.5 small, 4.0 x 3.333 large, a dimension equal to a
\* threshold does not leave medium); the font plan, the padding (0.05 / 0.12 /
\* 0.2 in) and the line spacing (8 / 10 / 12 pt) of a drawn label come from
\* that same tier.
C10_OneTierPerProfile ==
  ({"labelWidth", "labelHeight"} \subseteq DOMAIN template) =>
    LET w == template.labelWidth
        h == template.labelHeight
        tier == sizeCategory(template)
    IN  /\ tier = "small" <=> (w < 20000 \/ h < 7500)
        /\ tier = "large" <=> (~(w < 20000 \/ h < 7500) /\ (w > 35000 \/ h > 20000))
        /\ tier = "medium" <=> (w >= 20000 /\ w <= 35000 /\ h >= 7500 /\ h <= 20000)
        /\ (w = 26250 /\ h = 10000) => tier = "medium"
        /\ (w = 17500 /\ h = 5000) => tier = "small"
        /\ (w = 40000 /\ h = 33330) => tier = "large"
        /\ (w \in {20000, 35000} /\ h \in {7500, 20000}) => tier = "medium"
        /\ \A d \in Drawn :
             /\ d.fontSizes = FontPlans[StatedTier(w, h)]
             /\ d.padding = StatedPadding[StatedTier(w, h)]
             /\ d.lineHeight = StatedLineSpacing[StatedTier(w, h)]

C10_Witness ==
  /\ template.labelWidth = 35000
  /\ template.labelHeight = 7500
  /\ \E d \in Drawn : d.complete /\ d.padding = 86400 /\ d.fontSizes.studentName = 9

----------------------------------------------------------------------------
(* The text lines of a label *)

Completed == {d \in Drawn : d.complete}

\* the width left between the paddings of a drawn label
AvailableWidth(d) == d.width - 2 * d.padding

LinesOf(d, field) == SelectSeq(d.text.lines, LAMBDA l : l.field = field)

\* the width of a name, or of what is left of it, in the bold face at the
\* name role size of the drawn label
NameWidth(d, text) == widthOfTextAtSize("boldFont", text, d.fontSizes.studentName)

Prefixes(text) == {SubSeq(text, 1, n) : n \in 0..Len(text)}

\* C11: a student name whose width in the bold face at the name role size is
\* at most labelWidthPoints - 2*padding is drawn exactly as given (nothing
\* removed, no ellipsis appended) and no truncation warning is signaled.
C11_FittingNameDrawnAsGiven ==
  \A d \in Completed :
    NameWidth(d, d.order.studentName) <= AvailableWidth(d) =>
      /\ Len(LinesOf(d, "studentName")) = 1
      /\ LinesOf(d, "studentName")[1].text = d.order.studentName
      /\ LinesOf(d, "studentName")[1].font = "boldFont"
      /\ "studentName" \notin d.text.warnings

C11_Witness ==
  \E d \in Completed :
    /\ d.order.studentName = Rep("i", 51)
    /\ NameWidth(d, d.order.studentName) <= AvailableWidth(d)
    /\ LinesOf(d, "studentName")[1].text = d.order.studentName

\* the name line of a too wide name is a prefix of the name followed by "..."
\* and fits the available width
TruncatedNameLine(d) ==
  /\ Len(LinesOf(d, "studentName")) = 1
  /\ \E pre \in Prefixes(d.order.studentName) :
       LinesOf(d, "studentName")[1].text = pre \o <<".", ".", ".">>
  /\ NameWidth(d, LinesOf(d, "studentName")[1].text) <= AvailableWidth(d)

\* C12 as stated: a too wide name is drawn as a fitting prefix followed by
\* "...", and the line is left out only if "..." alone does not fit.
C12_OmittedOnlyIfEllipsisTooWide ==
  \A d \in Completed :
    NameWidth(d, d.order.studentName) > AvailableWidth(d) =>
      \/ TruncatedNameLine(d)
      \/ /\ LinesOf(d, "studentName") = <<>>
         /\ NameWidth(d, <<".", ".", ".">>) > AvailableWidth(d)

\* some non-empty prefix of the name followed by "..." fits
SomePrefixFits(d) ==
  \E pre \in Prefixes(d.order.studentName) \ {<<>>} :
    NameWidth(d, pre \o <<".", ".", ".">>) <= AvailableWidth(d)

\* C12: a too wide name is drawn as a non-empty prefix of the name followed
\* by "...", of a width at the name role size that is at most the available
\* width, when such a prefix exists; when no non-empty prefix followed by
\* "..." fits, the name line is left out, also where "..." alone would fit.
C12_TruncatedToFittingPrefix ==
  \A d \in Completed :
    NameWidth(d, d.order.studentName) > AvailableWidth(d) =>
      IF SomePrefixFits(d)
      THEN /\ TruncatedNameLine(d)
           /\ Len(LinesOf(d, "studentName")[1].text) > 3
      ELSE LinesOf(d, "studentName") = <<>>

C12_Witness ==
  /\ \E d \in Completed :
       /\ NameWidth(d, d.order.studentName) > AvailableWidth(d)
       /\ Len(LinesOf(d, "studentName")) = 1
       /\ Len(LinesOf(d, "studentName")[1].text) > 3
       /\ Len(LinesOf(d, "studentName")[1].text) < Len(d.order.studentName)
  /\ pc = "done"

\* C13 as stated: the baseline of every text line of a drawn label lies in
\* the padded area of its cell, cellY + padding <= lineY <= cellY +
\* labelHeightPoints - padding, so never below the bottom edge of the label.
C13_LinesInsidePaddedArea ==
  \A d \in Completed :
    \A k \in 1..Len(d.text.lines) :
      /\ d.y + d.padding <= d.text.lines[k].y
      /\ d.text.lines[k].y <= d.y + d.height - d.padding

----------------------------------------------------------------------------
(* Validation of the orders *)

\* an order with orderId, studentName, grade or contents missing or empty
\* after trimming
LacksRequiredField(order) ==
  \E f \in {"orderId", "studentName", "grade", "contents"} :
    f \notin DOMAIN order \/ Trim(order[f]) = <<>>

OrdersLackingField ==
  {i \in 1..Len(lunchOrders) : LacksRequiredField(lunchOrders[i])}

\* C17: when an order lacks orderId, studentName, grade or contents (missing
\* or empty after trimming), no page is created and no label drawn, not even
\* for a valid earlier order, nothing is written, and createLunchLabels (its
\* list, profile and path checks passed) fails with an error that names the
\* 1-based position of the first such order.
C17_FirstInvalidOrderStopsRun ==
  (inputIsArray /\ OrdersLackingField # {}) =>
    /\ drawLog = <<>>
    /\ pageCount = 0
    /\ writes = <<>>
    /\ ~saved
    /\ pc \in {"start", "failed"}
    /\ (/\ pc = "failed"
        /\ isValidTemplate(template) = "ok"
        /\ isValidOutputPath(outputPath) = "ok") =>
         /\ error.kind = "Order missing required fields"
         /\ error.index \in OrdersLackingField
         /\ \A i \in OrdersLackingField : error.index <= i

C17_Witness ==
  /\ pc = "failed"
  /\ Len(lunchOrders) = 4
  /\ OrdersLackingField = {2, 4}
  /\ error.kind = "Order missing required fields"
  /\ error.index = 2
  /\ drawLog = <<>>

\* an order over a documented length
OverLength(order) ==
  \/ Len(order.orderId) > 20
  \/ Len(order.studentName) > 50
  \/ Len(order.contents) > 200
  \/ "specialInstructions" \in DOMAIN order /\ Len(order.specialInstructions) > 100

\* C18 as stated: an order with orderId over 20, studentName over 50,
\* contents over 200 or specialInstructions over 100 characters is rejected
\* before any label is generated.
C18_OverLengthOrderNeverDrawn ==
  \A d \in Drawn : ~OverLength(d.order)

----------------------------------------------------------------------------
(* Errors of drawLunchLabel *)

HasUnencodable(order) ==
  \E f \in DOMAIN order : \E k \in 1..Len(order[f]) : order[f][k] \in Unencodable

\* a label whose position passed the four checks and whose texts can all be
\* encoded is drawn to completion and the loop goes on
C20_FitNeverThrows ==
  (/\ InLoop
   /\ PositionError(template, IterX, IterY) = "ok"
   /\ ~HasUnencodable(lunchOrders[labelIndex + 1])) =>
     /\ pc' = "loop"
     /\ error' = NoError
     /\ labelIndex' = labelIndex + 1
     /\ Len(drawLog') = labelIndex + 1
     /\ drawLog'[labelIndex + 1].complete
     /\ drawLog'[labelIndex + 1].order = lunchOrders[labelIndex + 1]

\* drawLunchLabel fails only on a text it cannot encode
C20_DrawErrorOnlyFromEncoding ==
  error.kind = "Failed to draw label" => HasUnencodable(lunchOrders[error.index])

\* labels drawn with fields left out do not keep the document from being
\* written with every order on it
C20_WrittenWithAllOrders ==
  pc = "done" =>
    /\ Len(writes) = 1
    /\ writes[1].labels = Len(lunchOrders)
    /\ \A d \in Drawn : d.complete

\* C20: text fitting never aborts generation: whatever the widths of the id,
\* name, grade, contents and note of a valid order, and whatever vertical
\* room is left, drawLunchLabel raises no error (it fails only on a text it
\* cannot encode); it leaves out or truncates fields and signals warnings,
\* the loop goes on with the next order and the document is written.
C20_FittingNeverAborts ==
  /\ [](C20_DrawErrorOnlyFromEncoding /\ C20_WrittenWithAllOrders)
  /\ [][C20_FitNeverThrows]_vars

C20_Witness ==
  /\ pc = "done"
  /\ Len(lunchOrders) = 2
  /\ template.labelWidth = 500
  /\ \A k \in 1..Len(drawLog[1].text.lines) :
       drawLog[1].text.lines[k].field = "contents"
  /\ {"orderId", "studentName", "grade", "specialInstructions"}
       \subseteq drawLog[1].text.warnings
  /\ drawLog[2].complete
  /\ Len(writes) = 1

----------------------------------------------------------------------------
(* The template registry *)

Asked(call) == call \in DOMAIN tplResult

\* isValidTemplateName and getTemplateByName agree on the name
Agree(valid, lookup) ==
  /\ tplResult[valid].value <=> tplResult[lookup].kind = "profile"
  /\ ~tplResult[valid].value <=>
       (tplResult[lookup].kind = "threw"
        /\ tplResult[lookup].value = "Unknown template")

\* C14 as stated: for every name other than "custom", isValidTemplateName is
\* true exactly when getTemplateByName returns a profile and false exactly
\* when it fails with an unknown-template error, in templates.js and in
\* index.js.
C14_ValidNameIffLookupSucceeds ==
  tplName # custom =>
    /\ (Asked("isValidTemplateName") /\ Asked("getTemplateByName")) =>
         Agree("isValidTemplateName", "getTemplateByName")
    /\ (Asked("cli.isValidTemplateName") /\ Asked("cli.getTemplateByName")) =>
         Agree("cli.isValidTemplateName", "cli.getTemplateByName")

RegistrationOrder ==
  << <<"5", "1", "6", "0">>, <<"8", "1", "6", "0">>, <<"5", "1", "6", "2">>,
     <<"5", "1", "6", "3">>, <<"8", "1", "6", "3">>, <<"5", "1", "6", "4">>,
     <<"8", "1", "6", "4">>, <<"5", "1", "6", "7">> >>

\* C15 as stated: getTemplateNames, and iteration over getAllTemplates, yield
\* the names in the order the entries are written: 5160, 8160, 5162, 5163,
\* 8163, 5164, 8164, 5167.
C15_NamesInRegistrationOrder ==
  /\ Asked("getTemplateNames") =>
       tplResult["getTemplateNames"].value = RegistrationOrder
  /\ Asked("getAllTemplates") =>
       tplResult["getAllTemplates"].value = RegistrationOrder

\* the built-in names the README gives for --template-name
DocumentedTemplateNames ==
  { <<"5", "1", "6", "0">>, <<"8", "1", "6", "0">>, <<"5", "1", "6", "2">>,
    <<"5", "1", "6", "3">>, <<"8", "1", "6", "3">>, <<"5", "1", "6", "4">>,
    <<"8", "1", "6", "4">>, <<"5", "1", "6", "7">> }

\* C16 as stated: every name the README documents for --template-name passes
\* the template-name check of generate and is resolved to a profile.
C16_DocumentedNamesAccepted ==
  (tplName \in DocumentedTemplateNames /\ Asked("generate")) =>
    tplResult["generate"].kind = "profile"

----------------------------------------------------------------------------
(* CSV round trip *)

\* the list holds valid orders with the same keys in each
ValidCsvOrders(data) ==
  /\ Len(data) > 0
  /\ \A i \in 1..Len(data) :
       /\ {data[i][k].key : k \in 1..Len(data[i])} =
            {data[1][k].key : k \in 1..Len(data[1])}
       /\ \A f \in 1..Len(requiredHeaders) :
            Trim(Field(data[i], requiredHeaders[f])) # <<>>

\* no value of the list holds one of the characters
FreeOf(data, chars) ==
  \A i \in 1..Len(data) : \A k \in 1..Len(data[i]) :
    \A c \in 1..Len(data[i][k].value) : data[i][k].value[c] \notin chars

\* convertToCSV and parseCSV have both ended, in a list or in an error
RoundTripEnded == csvPc \in {"parsed", "CSV conversion error", "CSV parsing error"}

\* the parsed list equals the list written, field for field
SameOrders ==
  /\ csvPc = "parsed"
  /\ Len(csvRows) = Len(csvData)
  /\ \A i \in 1..Len(csvData) :
       /\ {csvRows[i][k].key : k \in 1..Len(csvRows[i])} =
            {csvData[i][k].key : k \in 1..Len(csvData[i])}
       /\ \A k \in 1..Len(csvData[i]) :
            Field(csvRows[i], csvData[i][k].key) = csvData[i][k].value

\* C19 as stated: for a non-empty list of valid orders with the same keys whose
\* values hold no comma, double quote or newline, parseCSV(convertToCSV(orders))
\* is a list of the same length, field for field equal to the input.
C19_RoundTripStated ==
  (/\ RoundTripEnded
   /\ ValidCsvOrders(csvData)
   /\ FreeOf(csvData, {",", "\"", "\n"})) => SameOrders

\* no value starts or ends with whitespace
NoOuterWhitespace(data) ==
  \A i \in 1..Len(data) : \A k \in 1..Len(data[i]) :
    LET v == data[i][k].value
    IN  v # <<>> => v[1] \notin Whitespace /\ v[Len(v)] \notin Whitespace

\* C19: for a non-empty list of valid orders with the same keys whose values
\* hold no comma, double quote, newline or carriage return and neither start
\* nor end with whitespace, parseCSV(convertToCSV(orders)) is a list of the
\* same length, field for field equal to the input (an absent optional field
\* being the empty text).
C19_RoundTrip ==
  (/\ RoundTripEnded
   /\ ValidCsvOrders(csvData)
   /\ FreeOf(csvData, {",", "\"", "\n", "\r"})
   /\ NoOuterWhitespace(csvData)) => SameOrders

C19_Witness ==
  /\ csvPc = "parsed"
  /\ Len(csvData) = 2
  /\ ValidCsvOrders(csvData)
  /\ FreeOf(csvData, {",", "\"", "\n", "\r"})
  /\ NoOuterWhitespace(csvData)
  /\ Field(csvData[1], kSpecialInstructions) = <<>>
  /\ Field(csvData[2], kSpecialInstructions) = <<"n", "o", " ", "n", "u", "t">>
  /\ Len(csvRows) = 2
  /\ SameOrders

----------------------------------------------------------------------------
(* The fields of a label, one by one *)

\* C22 as stated: the line "#" + orderId is drawn, in bold at the id role
\* size, if and only if its width in that bold face at that size is at most
\* labelWidthPoints - 2*padding; otherwise nothing is drawn for the id and a
\* warning is signaled; a drawn id line does not pass the right padding.
C22_IdDrawnIffBoldWidthFits ==
  \A d \in Completed :
    LET idText == <<"#">> \o d.order.orderId
        boldWidth == widthOfTextAtSize("boldFont", idText, d.fontSizes.orderId)
    IN  IF boldWidth <= AvailableWidth(d)
        THEN /\ Len(LinesOf(d, "orderId")) = 1
             /\ LinesOf(d, "orderId")[1].text = idText
             /\ LinesOf(d, "orderId")[1].font = "boldFont"
             /\ LinesOf(d, "orderId")[1].size = d.fontSizes.orderId
        ELSE /\ LinesOf(d, "orderId") = <<>>
             /\ "orderId" \in d.text.warnings

\* C23 as stated: every contents line drawn has a width at the contents role
\* size of at most labelWidthPoints - 2*padding, also for contents holding a
\* single word wider than the available width.
C23_ContentsLinesFit ==
  \A d \in Completed :
    \A k \in 1..Len(LinesOf(d, "contents")) :
      widthOfTextAtSize("font", LinesOf(d, "contents")[k].text,
                        d.fontSizes.contents) <= AvailableWidth(d)

\* C24: at most 3 contents lines are drawn on a label, the lines drawn inside
\* the word loop and the remaining line drawn after it counted together.
C24_AtMostThreeContentsLines ==
  \A d \in Completed : Len(LinesOf(d, "contents")) <= 3

C24_Witness ==
  /\ \E d \in Completed :
       /\ d.order.contents = WideWords(8, 11)
       /\ Len(LinesOf(d, "contents")) = 3
  /\ \E d \in Completed :
       /\ d.order.contents = WideWords(6, 11)
       /\ Len(LinesOf(d, "contents")) = 3
       /\ LinesOf(d, "contents")[3].text = WideWords(2, 11)

\* the words of a text: its non-empty pieces between single spaces
WordsOf(text) == SelectSeq(SplitOn(text, " "), LAMBDA w : w # <<>>)

\* the words of the contents lines of a label, in the order drawn
RECURSIVE WordsOfLines(_)
WordsOfLines(lines) ==
  IF lines = <<>> THEN <<>>
  ELSE WordsOf(Head(lines).text) \o WordsOfLines(Tail(lines))

DrawnWords(d) == WordsOfLines(LinesOf(d, "contents"))

\* C25 as stated: the contents-truncated warning is signaled if and only if
\* at least one word of the contents was not drawn.
C25_WarningIffWordDroppedStated ==
  \A d \in Completed :
    "contents" \in d.text.warnings <=>
      Len(DrawnWords(d)) < Len(WordsOf(d.order.contents))

\* the text has no leading, trailing or doubled space
SingleSpaced(text) == \A k \in 1..Len(SplitOn(text, " ")) : SplitOn(text, " ")[k] # <<>>

\* C25: for contents whose words are separated by single spaces, with no
\* leading or trailing space, the contents-truncated warning is signaled if
\* and only if at least one word of the contents was not drawn; contents
\* drawn whole on three lines or fewer give no warning.
C25_WarningIffWordDropped ==
  \A d \in Completed :
    SingleSpaced(d.order.contents) =>
      ("contents" \in d.text.warnings <=>
         Len(DrawnWords(d)) < Len(WordsOf(d.order.contents)))

C25_Witness ==
  /\ \E d \in Completed :
       /\ d.order.contents = WideWords(6, 11)
       /\ Len(LinesOf(d, "contents")) = 3
       /\ Len(DrawnWords(d)) = 6
       /\ "contents" \notin d.text.warnings
  /\ \E d \in Completed :
       /\ d.order.contents = WideWords(8, 11)
       /\ Len(DrawnWords(d)) = 6
       /\ "contents" \in d.text.warnings

NoteOf(d) ==
  IF "specialInstructions" \in DOMAIN d.order
  THEN d.order.specialInstructions
  ELSE <<>>

\* C26: the line "* " + note is drawn if and only if the note is not blank,
\* its width at the note role size is at most the available width and the
\* cursor left by the fields before it is strictly above cellY + padding (a
\* cursor at cellY + padding is not); a non-blank note that is not drawn
\* gives a warning; the number of contents lines plays no other part.
C26_NoteDrawnIffRoomLeft ==
  \A d \in Completed :
    LET noteText == <<"*", " ">> \o NoteOf(d)
        fits == /\ Trim(NoteOf(d)) # <<>>
                /\ widthOfTextAtSize("font", noteText,
                                     d.fontSizes.specialInstructions)
                     <= AvailableWidth(d)
                /\ d.text.currentY > d.y + d.padding
    IN  /\ fits <=> /\ Len(LinesOf(d, "specialInstructions")) = 1
                    /\ LinesOf(d, "specialInstructions")[1].text = noteText
                    /\ LinesOf(d, "specialInstructions")[1].y = d.text.currentY
        /\ ~fits => LinesOf(d, "specialInstructions") = <<>>
        /\ (~fits /\ Trim(NoteOf(d)) # <<>>)
             <=> "specialInstructions" \in d.text.warnings

C26_Witness ==
  \E d \in Completed :
       /\ d.text.currentY = d.y + d.padding
       /\ Len(LinesOf(d, "contents")) = 1
       /\ NoteOf(d) = <<"n", "o", " ", "n", "u", "t">>
       /\ LinesOf(d, "specialInstructions") = <<>>
       /\ "specialInstructions" \in d.text.warnings

\* C27 as stated: the first line drawn in a cell is at y = cellY +
\* labelHeightPoints - padding - lineSpacing/2 and x = cellX + padding, and
\* consecutive lines drawn in a cell are exactly one lineSpacing apart: a
\* field that is skipped or left out leaves no blank slot.
C27_LinesOneSpacingApart ==
  \A d \in Completed :
    \A k \in 1..Len(d.text.lines) :
      /\ d.text.lines[k].x = d.x + d.padding
      /\ d.text.lines[k].y =
           d.y + d.height - d.padding - d.lineHeight \div 2
             - (k - 1) * d.lineHeight

IsPrefix(a, b) == Len(a) <= Len(b) /\ SubSeq(b, 1, Len(a)) = a

\* C30: the contents lines drawn, joined with single spaces in the order
\* drawn, hold a prefix of the words of the contents: the words keep their
\* order, none is repeated, cut in two or skipped, and only a trailing run of
\* words can be missing.
C30_DrawnWordsArePrefix ==
  \A d \in Completed : IsPrefix(DrawnWords(d), WordsOf(d.order.contents))

C30_Witness ==
  \E d \in Completed :
    /\ Len(WordsOf(d.order.contents)) = 5
    /\ DrawnWords(d) = << <<"p", "e", "a">>, <<"n", "u", "t">>, <<"b", "a", "r">> >>
    /\ Len(LinesOf(d, "contents")) = 3

----------------------------------------------------------------------------
(* Pages *)

Running == pc \in {"loop", "mkdir", "write", "done"}

PerPage == template.labelsPerRow * template.labelsPerColumn

CeilDiv(n, k) == (n + k - 1) \div k

\* between two orders: the pages created so far are those the labels drawn
\* need, none is empty or over-full, and the last label is on the last page
C28_PagesHoldTheirLabels ==
  Running =>
    /\ pageCount = CeilDiv(Len(drawLog), PerPage)
    /\ currentPage = pageCount
    /\ \A p \in 1..pageCount : CountOnPage(p) >= 1 /\ CountOnPage(p) <= PerPage
    /\ \A k \in 1..Len(drawLog) : drawLog[k].page = CeilDiv(k, PerPage)
    /\ (pc = "done" => pageCount = CeilDiv(Len(lunchOrders), PerPage))

\* a page is created in the step that handles the order whose 0-based index
\* is a multiple of labelsPerRow*labelsPerColumn, and in no other step; the
\* label of that step is drawn on the page just created
C28_NewPageAtMultiples ==
  /\ (pc = "loop" /\ labelIndex' = labelIndex + 1) =>
       /\ (pageCount' = pageCount + 1) <=> (labelIndex % PerPage = 0)
       /\ (pageCount' = pageCount) <=> (labelIndex % PerPage # 0)
       /\ drawLog'[Len(drawLog')].page = pageCount'
  /\ pageCount' # pageCount =>
       /\ pc = "loop"
       /\ labelIndex % PerPage = 0
       /\ pageCount' = pageCount + 1

MeetsDataModel(t) ==
  /\ HasGeometry(t)
  /\ t.labelWidth > 0 /\ t.labelHeight > 0
  /\ t.labelsPerRow >= 1 /\ t.labelsPerColumn >= 1
  /\ t.marginTop >= 0 /\ t.marginLeft >= 0
  /\ t.horizontalGap >= 0 /\ t.verticalGap >= 0
  /\ RowWidth(t) <= 85000
  /\ ColumnHeight(t) <= 110000

TemplateErrors ==
  {"Template missing required fields", "Label dimensions too large",
   "Too many labels per page"}

\* C29 as stated: profile validation accepts every profile of the data model,
\* a profile with marginTop = 0 or marginLeft = 0 that fits the page included.
C29_DataModelProfilesAccepted ==
  MeetsDataModel(template) => ~(pc = "failed" /\ error.kind \in TemplateErrors)

----------------------------------------------------------------------------
(* Template inference *)

PositivePage ==
  /\ Len(detPages) > 0
  /\ detPages[1].width > 0
  /\ detPages[1].height > 0

PositiveNumber(t, field) ==
  /\ field \notin NaNFields(t)
  /\ field \in DOMAIN t
  /\ t[field] > 0

\* C21 as stated: for every page of positive width and height the inferred
\* profile has labelWidth > 0, labelHeight > 0 and labelsPerRow and
\* labelsPerColumn positive integers, and so passes validateTemplate.
C21_InferredProfileValid ==
  (detPc \in {"analyzed", "validated", "rejected"} /\ PositivePage) =>
    /\ PositiveNumber(detectedTemplate, "labelWidth")
    /\ PositiveNumber(detectedTemplate, "labelHeight")
    /\ PositiveNumber(detectedTemplate, "labelsPerRow")
    /\ PositiveNumber(detectedTemplate, "labelsPerColumn")
    /\ detPc # "rejected"

====
